---------------------------- MODULE Spec2Model ----------------------------
(***************************************************************************)
(* A model of AI Writing Studio: the POST /api/generate route              *)
(* (backend/routes/generate.js), its Imagen-first variant, the             *)
(* model-fallback retry routine generateWithRetry, and the client editor   *)
(* state of app.component.ts.                                              *)
(*                                                                         *)
(* Strings the code inspects character by character (the prompt, the       *)
(* generated text) are sequences of one-character strings; tokens cut out  *)
(* of them are TLA+ strings.  Error messages, which the code only searches *)
(* for a word, are sequences of words.                                     *)
(***************************************************************************)
EXTENDS Integers, Sequences, FiniteSets, TLC

(***************************************************************************)
(* Bounds of the model.                                                    *)
(***************************************************************************)
\* longest model list generateWithRetry is run on in SpecRetry
MaxModels == 2
\* largest maxRetries argument generateWithRetry is run with in SpecRetry
MaxRetriesArg == 4
\* most calls a run of generateWithRetry can make in SpecRetry
\* (models.length * maxRetries)
MaxCalls == 8
\* longest contentHistory, most requests in flight and latest Date of the
\* client in SpecClient
MaxHistory == 3
MaxInFlight == 2
MaxClientTime == 1
\* the values Date.now() takes at generate.js:183 lie in TimeLo..TimeHi
TimeLo == 795
TimeHi == 1005
\* the variant's clock advances in steps of TickMs, MaxTicks times at most
TickMs == 60000
MaxTicks == 2
\* most tokens of a prompt in SpecKeywords
MaxPromptTokens == 4
\* most pieces of a draft in SpecFormat
MaxPieces == 4
\* SpecCooldown: the requests served concurrently, and the clock advancing in
\* steps of CooldownTickMs, MaxCooldownTicks times at most
MaxRequests == 2
\* SpecPdf: most images and most child nodes of a draft
MaxImages == 3
MaxNodes == 3
CooldownTickMs == 30000
MaxCooldownTicks == 3
\* SpecWordCount: most pieces, words or whitespace, of a generated text
MaxTextPieces == 4

(***************************************************************************)
(* Program constants.                                                      *)
(***************************************************************************)
\* generate.js:226, part_001:316  (maxRetries = 2)
DefaultMaxRetries == 2
\* generate.js:248
RateLimitBaseDelay == 2000
\* generate.js:261, part_001:339
TransientBaseDelay == 1000
\* generate.js:184,187,198  (three image slots)
ImageSlots == 3
\* part_001:286  (keywords.slice(0, 2))
VariantKeywordSlots == 2
\* part_001:67,115  (Date.now() + 60000)
CooldownMs == 60000

(***************************************************************************)
(* Characters and JavaScript string primitives.                            *)
(***************************************************************************)
UpperChars ==
  <<"A","B","C","D","E","F","G","H","I","J","K","L","M",
    "N","O","P","Q","R","S","T","U","V","W","X","Y","Z">>

LowerChars ==
  <<"a","b","c","d","e","f","g","h","i","j","k","l","m",
    "n","o","p","q","r","s","t","u","v","w","x","y","z">>

DigitChars == {"0","1","2","3","4","5","6","7","8","9"}

\* \s of a JavaScript regular expression, as far as the prompts here use it
WhitespaceChars == {" ", "\t", "\n"}

Range(s) == {s[i] : i \in 1..Len(s)}

\* \w of a JavaScript regular expression
WordChars == Range(UpperChars) \cup Range(LowerChars) \cup DigitChars \cup {"_"}

\* String.prototype.toLowerCase, one character
toLowerCaseChar(c) ==
  IF c \in Range(UpperChars)
  THEN LowerChars[CHOOSE i \in 1..Len(UpperChars) : UpperChars[i] = c]
  ELSE c

\* String.prototype.toLowerCase
toLowerCase(s) == [i \in 1..Len(s) |-> toLowerCaseChar(s[i])]

\* s.replace(/[^\w\s]/g, '')
stripPunctuation(s) == SelectSeq(s, LAMBDA c : c \in WordChars \cup WhitespaceChars)

RECURSIVE splitFrom(_, _, _)
splitFrom(s, cur, inWs) ==
  IF s = <<>> THEN <<cur>>
  ELSE IF Head(s) \in WhitespaceChars
       THEN IF inWs THEN splitFrom(Tail(s), cur, TRUE)
            ELSE <<cur>> \o splitFrom(Tail(s), "", TRUE)
       ELSE splitFrom(Tail(s), cur \o Head(s), FALSE)

\* s.split(/\s+/): the pieces between maximal runs of whitespace, the empty
\* pieces before a leading run and after a trailing run included
splitWhitespace(s) == splitFrom(s, "", FALSE)

\* s.trim() === ''
isBlank(s) == \A i \in 1..Len(s) : s[i] \in WhitespaceChars

\* message.includes(word), on a message held as a sequence of words
includes(message, word) == \E i \in 1..Len(message) : message[i] = word

RECURSIVE dedupe(_)
\* [...new Set(words)]: first occurrences, in order
dedupe(words) ==
  IF words = <<>> THEN <<>>
  ELSE LET rest == dedupe(SubSeq(words, 1, Len(words) - 1))
           last == words[Len(words)]
       IN IF last \in Range(rest) THEN rest ELSE Append(rest, last)

\* insertByLength for the comparison a.length - b.length
insertByLengthAscending(sorted, x) ==
  LET k == Cardinality({i \in 1..Len(sorted) : Len(sorted[i]) <= Len(x)})
  IN SubSeq(sorted, 1, k) \o <<x>> \o SubSeq(sorted, k + 1, Len(sorted))

\* x put into a list sorted by non-increasing length, after every element at
\* least as long (Array.prototype.sort is stable)
insertByLength(sorted, x) ==
  LET k == Cardinality({i \in 1..Len(sorted) : Len(sorted[i]) >= Len(x)})
  IN SubSeq(sorted, 1, k) \o <<x>> \o SubSeq(sorted, k + 1, Len(sorted))

RECURSIVE sortByLengthDesc(_)
\* words.sort((a, b) => b.length - a.length)
sortByLengthDesc(words) ==
  IF words = <<>> THEN <<>>
  ELSE insertByLength(sortByLengthDesc(SubSeq(words, 1, Len(words) - 1)),
                      words[Len(words)])

\* a.slice(0, n)
slice(a, n) == SubSeq(a, 1, IF Len(a) < n THEN Len(a) ELSE n)

(***************************************************************************)
(* Keyword extraction.                                                     *)
(***************************************************************************)
\* the stop words both route files share (part_001:193)
stopWordsCommon ==
  {"the","a","an","and","or","but","in","on","at","to","for","of","with","by",
   "from","as","is","was","are","were","been","be","have","has","had","do",
   "does","did","will","would","could","should","may","might","can","this",
   "that","these","those","i","you","he","she","it","we","they","what","which",
   "who","when","where","why","how","all","each","every","both","few","more",
   "most","other","some","such","no","nor","not","only","own","same","so",
   "than","too","very","just","about","write","create","make","generate",
   "content","article","blog","post"}

\* generate.js:78
stopWords == stopWordsCommon \cup {"essay","email","script","ad","seo","social"}

\* generate.js:80-83 and part_001:195-198, for a given stop-word list
promptWords(chars, stops) ==
  SelectSeq(splitWhitespace(stripPunctuation(toLowerCase(chars))),
            LAMBDA w : Len(w) > 3 /\ w \notin stops)

\* extractKeywordsSimple falling back on the content type when it has one
extractKeywordsSimpleWithType(promptChars, contentType) ==
  CHOOSE result \in
    { IF Len(keywords) > 0 THEN keywords
      ELSE IF contentType # "" THEN <<contentType>>
      ELSE <<"professional", "business", "content">> :
      keywords \in { slice(sortByLengthDesc(uniqueWords), 3) :
        uniqueWords \in { dedupe(words) :
          words \in { promptWords(promptChars, stopWords) } } } } : TRUE

\* generate.js:76-93; prompt is the prompt's characters. Each const of the
\* function is bound to its value once: words (80-83), uniqueWords (85-86),
\* keywords (88), and the returned list (90-92)
extractKeywordsSimple(promptChars, contentType) ==
  CHOOSE result \in
    { IF Len(keywords) > 0 THEN keywords
      ELSE <<"professional", "business", "content">> :
      keywords \in { slice(sortByLengthDesc(uniqueWords), 3) :
        uniqueWords \in { dedupe(words) :
          words \in { promptWords(promptChars, stopWords) } } } } : TRUE

\* part_001:191-212; contentType is "" when the request has none
extractKeywordsSimpleVariant(promptChars, contentType) ==
  CHOOSE result \in
    { IF Len(keywords) > 0 THEN keywords
      ELSE <<"business", "technology", "professional">> :
      keywords \in { IF Len(top) < 3 /\ contentType # ""
                     THEN Append(top, contentType) ELSE top :
        top \in { slice(sortByLengthDesc(uniqueWords), 3) :
          uniqueWords \in { dedupe(words) :
            words \in { promptWords(promptChars, stopWordsCommon) } } } } } : TRUE

(***************************************************************************)
(* The text-generation provider, as generateWithRetry sees it: a call      *)
(* returns a text or throws an error carrying an HTTP-like status and a    *)
(* message.                                                                *)
(***************************************************************************)
NoError == [status |-> 200, message |-> <<>>]

\* HTTP 429 from the provider
ErrTooManyRequests == [status |-> 429, message |-> <<"429", "Too", "Many", "Requests">>]

\* HTTP 404: the model is not available
ErrNotFound == [status |-> 404, message |-> <<"404", "Not", "Found">>]

\* HTTP 404 whose message also mentions the project's quota
ErrNotFoundQuota ==
  [status |-> 404, message |-> <<"404", "Not", "Found", "check", "quota", "project">>]

\* any other failure
ErrUnavailable == [status |-> 503, message |-> <<"503", "Service", "Unavailable">>]

\* the errors a call of generate.js:237 throws in this model
ProviderErrors == {ErrTooManyRequests, ErrNotFound, ErrNotFoundQuota, ErrUnavailable}

\* the errors a call of part_001:329 throws in this model (its catch block
\* reads nothing of the error but the message it logs)
ProviderErrorsVariant == {ErrUnavailable}

\* the texts response.text() returns in this model
Texts ==
  { <<"A","I"," ","h","e","l","p","s">>,
    <<"#","#"," ","T","i","p","s","\n","\n","*","*","G","o","*","*"," ","n","o","w",".">> }

\* generate.js:229-231
StockModels == <<"gemini-2.5-flash">>

\* part_001:319-323
VariantModels == <<"gemini-2.0-flash", "gemini-1.5-flash-latest", "gemini-1.5-pro-latest">>

\* the model lists generateWithRetry is run on in SpecRetry: the prefixes of
\* this list up to MaxModels
ModelNames == <<"A", "B", "C", "D">>

\* generate.js:268
ExhaustedMessage ==
  <<"All", "models", "failed", "after", "retries.", "Free", "tier", "quota",
    "may", "be", "exceeded.", "Please", "check", "your", "API", "billing">>

\* part_001:345
ExhaustedMessageVariant == <<"All", "models", "failed", "after", "retries">>

(***************************************************************************)
(* State.                                                                  *)
(***************************************************************************)
VARIABLES
  variant,            \* which route file is mounted: "stock" (generate.js) or "imagen"
  hasUnsplashKey,     \* process.env.(VITE_)UNSPLASH_ACCESS_KEY is set
  pc,                 \* where the request handler is suspended
  req,                \* req.body of the request in hand
  models,             \* generateWithRetry: const models
  maxRetries,         \* generateWithRetry: parameter maxRetries
  modelIdx,           \* generateWithRetry: position of the outer loop (1-based)
  attempt,            \* generateWithRetry: let attempt
  textCalls,          \* the calls of model.generateContent made so far, with their outcomes
  waits,              \* the setTimeout waits made so far
  text,               \* const text of the route, <<>> before it is set
  thrown,             \* message of the error thrown to the route's catch, <<>> if none
  keywords,           \* the keywords handed to fetchUnsplashImages
  kwIdx,              \* fetchUnsplashImages: position of the for loop (1-based)
  unsplashFound,      \* fetchUnsplashImages: const images
  photoCalls,         \* the photo-search calls made so far, with their outcomes
  aiImage,            \* generateImageSuggestions (variant): let aiGeneratedImage
  aiCalls,            \* the AI-image calls made so far, with their outcomes
  isRateLimited,      \* part_001:8
  rateLimitResetTime, \* part_001:9
  now,                \* the clock Date.now() reads in the variant
  responses,          \* the responses sent for the request in hand
  \* app.component.ts
  prompt,             \* :15
  generatedContent,   \* :20
  actualWordCount,    \* :21
  isLoading,          \* :22
  isRefining,         \* :23
  error,              \* :24
  refinePrompt,       \* :25
  contentStatus,      \* :26
  isEditing,          \* :27
  editableContent,    \* :28
  contentHistory,     \* :29
  currentVersion,     \* :30
  inFlight,           \* how many generate and refine requests are not yet answered
  clientTime,         \* the time new Date() reads in the browser
  rendered,           \* the values the formattedContent getter (:112) has returned
  opLog,              \* history: the contents of the successful generate, refine and
                      \* saveEdit operations since the start or the last reject, oldest first
  \* part_001, requests served concurrently
  aiStep,             \* where each request is in the AI-image step of generateImageSuggestions
  aiEvents,           \* history: the checks, calls and outcomes of the AI-image step, in order
  \* app.component.ts, downloadAsPDF
  pdfPc,              \* where downloadAsPDF is: "idle", "loading" (at the await of :491),
                      \* "saved" (after :601), "failed" (in the catch of :602)
  contentImages,      \* :31, each image by what loadImageAsBase64 will do with it
  imageIdx,           \* :486, let i (1-based)
  nodes,              \* :513-514, the child nodes of tempDiv
  yPosition,          \* :445
  pages,              \* pdf.getNumberOfPages()
  drawn               \* what has been drawn into the document, in order

serverVars ==
  <<variant, hasUnsplashKey, pc, req, keywords, kwIdx, unsplashFound, photoCalls,
    aiImage, aiCalls, isRateLimited, rateLimitResetTime, now, responses>>

retryVars == <<models, maxRetries, modelIdx, attempt, textCalls, waits, text, thrown>>

clientVars ==
  <<prompt, generatedContent, actualWordCount, isLoading, isRefining, error, refinePrompt,
    contentStatus, isEditing, editableContent, contentHistory, currentVersion, inFlight,
    clientTime, rendered, opLog>>

cooldownVars == <<aiStep, aiEvents>>

pdfVars == <<pdfPc, contentImages, imageIdx, nodes, yPosition, pages, drawn>>

vars == <<serverVars, retryVars, clientVars, cooldownVars, pdfVars>>

\* app.component.ts:15-30: the component's fields after construction
ClientInit ==
  /\ prompt = <<>>
  /\ generatedContent = <<>>
  /\ actualWordCount = 0
  /\ isLoading = FALSE
  /\ isRefining = FALSE
  /\ error = ""
  /\ refinePrompt = <<>>
  /\ contentStatus = "draft"
  /\ isEditing = FALSE
  /\ editableContent = <<>>
  /\ contentHistory = <<>>
  /\ currentVersion = 0
  /\ inFlight = [generate |-> 0, refine |-> 0]
  /\ clientTime = 0
  /\ rendered = <<>>
  /\ opLog = <<>>

\* no request is in the AI-image step
CooldownIdle ==
  /\ aiStep = <<>>
  /\ aiEvents = <<>>

\* no export is running
PdfIdle ==
  /\ pdfPc = "idle"
  /\ contentImages = <<>>
  /\ imageIdx = 1
  /\ nodes = <<>>
  /\ yPosition = 0
  /\ pages = 1
  /\ drawn = <<>>

NoRequest == [prompt |-> [kind |-> "undefined", chars |-> <<>>], contentType |-> ""]

(***************************************************************************)
(* generateWithRetry.                                                      *)
(***************************************************************************)
\* generate.js:242
isRateLimitError(err) ==
  \/ err.status = 429
  \/ includes(err.message, "quota")
  \/ includes(err.message, "429")

\* generate.js:251
isNotFoundError(err) == ~isRateLimitError(err) /\ err.status = 404

\* retryDelay without the (attempt + 1) factor: the same wait after every attempt
retryDelayFlat(err, a, retries) ==
  IF isNotFoundError(err) \/ ~(a < retries - 1) THEN 0
  ELSE IF isRateLimitError(err) THEN RateLimitBaseDelay
  ELSE TransientBaseDelay

\* generate.js:246-249 and 259-262: the wait after failed attempt a, 0 for none
retryDelay(err, a, retries) ==
  IF isNotFoundError(err) \/ ~(a < retries - 1) THEN 0
  ELSE IF isRateLimitError(err) THEN RateLimitBaseDelay * (a + 1)
  ELSE TransientBaseDelay * (a + 1)

\* part_001:337-341
retryDelayVariant(err, a, retries) ==
  IF a < retries - 1 THEN TransientBaseDelay * (a + 1) ELSE 0

\* generate.js:253: break leaves the attempts loop of this model
abandonsModel(err) == isNotFoundError(err)

\* nextPosition with the attempts loop running while attempt <= maxRetries
nextPositionOffByOne(m, a, retries, abandon) ==
  IF abandon \/ a + 1 > retries THEN <<m + 1, 0>> ELSE <<m, a + 1>>

\* nextPosition with a retry that starts again at the head of the model list
nextPositionFromHead(m, a, retries, abandon) ==
  IF abandon \/ a + 1 >= retries THEN <<m + 1, 0>> ELSE <<1, a + 1>>

\* generate.js:233-234 and part_001:325-326 (the two for loops):
\* the loops' next position after a failed attempt a on model m:
\* <<model, attempt>>, the model past the end of the list when all are used up
nextPosition(m, a, retries, abandon) ==
  IF abandon \/ a + 1 >= retries THEN <<m + 1, 0>> ELSE <<m, a + 1>>

\* generate.js:237-239 and part_001:329-331: the call returns a text
TextCallSucceeds ==
  /\ pc = "generating"
  /\ \E t \in Texts :
       /\ text' = t
       /\ textCalls' = Append(textCalls,
            [model |-> models[modelIdx], attempt |-> attempt, ok |-> TRUE, error |-> NoError])
  /\ pc' = "generated"
  /\ UNCHANGED <<models, maxRetries, modelIdx, attempt, waits, thrown>>
  /\ UNCHANGED <<clientVars, cooldownVars, pdfVars>>
  /\ UNCHANGED <<variant, hasUnsplashKey, req, keywords, kwIdx, unsplashFound, photoCalls,
                 aiImage, aiCalls, isRateLimited, rateLimitResetTime, now, responses>>

\* what a failed call does, given its wait and whether the model is abandoned
FailedAttempt(err, delay, abandon, message) ==
  LET next == nextPosition(modelIdx, attempt, maxRetries, abandon)
  IN /\ textCalls' = Append(textCalls,
          [model |-> models[modelIdx], attempt |-> attempt, ok |-> FALSE, error |-> err])
     /\ waits' = IF delay > 0
                 THEN Append(waits, [model |-> models[modelIdx], attempt |-> attempt,
                                     ms |-> delay])
                 ELSE waits
     /\ modelIdx' = next[1]
     /\ attempt' = next[2]
     /\ IF next[1] > Len(models)
        THEN pc' = "exhausted" /\ thrown' = message
        ELSE pc' = "generating" /\ thrown' = thrown
     /\ UNCHANGED <<models, maxRetries, text>>
     /\ UNCHANGED <<clientVars, cooldownVars, pdfVars>>
     /\ UNCHANGED <<variant, hasUnsplashKey, req, keywords, kwIdx, unsplashFound, photoCalls,
                    aiImage, aiCalls, isRateLimited, rateLimitResetTime, now, responses>>

\* generate.js:240-268: the call throws
TextCallFails ==
  /\ pc = "generating"
  /\ variant = "stock"
  /\ \E err \in ProviderErrors :
       FailedAttempt(err, retryDelay(err, attempt, maxRetries),
                     abandonsModel(err), ExhaustedMessage)

\* part_001:332-345: the call throws
TextCallFailsVariant ==
  /\ pc = "generating"
  /\ variant = "imagen"
  /\ \E err \in ProviderErrorsVariant :
       FailedAttempt(err, retryDelayVariant(err, attempt, maxRetries),
                     FALSE, ExhaustedMessageVariant)

\* generateWithRetry on its own: any model list up to MaxModels and any
\* maxRetries up to MaxRetriesArg that make MaxCalls calls at most, under
\* either route file's catch block
InitRetry ==
  /\ variant \in {"stock", "imagen"}
  /\ hasUnsplashKey = FALSE
  /\ pc = "generating"
  /\ req = NoRequest
  /\ \E n \in 1..MaxModels : models = SubSeq(ModelNames, 1, n)
  /\ maxRetries \in 1..MaxRetriesArg
  /\ Len(models) * maxRetries <= MaxCalls
  /\ modelIdx = 1
  /\ attempt = 0
  /\ textCalls = <<>>
  /\ waits = <<>>
  /\ text = <<>>
  /\ thrown = <<>>
  /\ keywords = <<>>
  /\ kwIdx = 1
  /\ unsplashFound = <<>>
  /\ photoCalls = <<>>
  /\ aiImage = [kind |-> "none", keyword |-> "", id |-> 0, t |-> 0]
  /\ aiCalls = <<>>
  /\ isRateLimited = FALSE
  /\ rateLimitResetTime = 0
  /\ now = 0
  /\ responses = <<>>
  /\ ClientInit
  /\ CooldownIdle
  /\ PdfIdle

NextRetry == TextCallSucceeds \/ TextCallFails \/ TextCallFailsVariant

SpecRetry == InitRetry /\ [][NextRetry]_vars

(***************************************************************************)
(* Requests.                                                               *)
(***************************************************************************)
\* a prompt of req.body: absent, a string, or a JSON number
undefinedPrompt == [kind |-> "undefined", chars |-> <<>>]

stringPrompt(chars) == [kind |-> "string", chars |-> chars]

numberPrompt == [kind |-> "number", chars |-> <<"4", "2">>]

\* !prompt is false (generate.js:275): a non-empty string or a non-zero number
isTruthy(p) ==
  \/ p.kind = "string" /\ Len(p.chars) > 0
  \/ p.kind = "number"

\* "AI in healthcare"
PromptHealthcare ==
  <<"A","I"," ","i","n"," ","h","e","a","l","t","h","c","a","r","e">>

\* "Solar power"
PromptSolar == <<"S","o","l","a","r"," ","p","o","w","e","r">>

\* "Cloud security basics, today!"
PromptCloud ==
  <<"C","l","o","u","d"," ","s","e","c","u","r","i","t","y"," ",
    "b","a","s","i","c","s",","," ","t","o","d","a","y","!">>

\* "Write the post"
PromptStopWords == <<"W","r","i","t","e"," ","t","h","e"," ","p","o","s","t">>

\* the request bodies of this model
Requests ==
  { [prompt |-> undefinedPrompt, contentType |-> "article"],
    [prompt |-> stringPrompt(<<>>), contentType |-> ""],
    [prompt |-> stringPrompt(<<" ", "\t", " ">>), contentType |-> "article"],
    [prompt |-> numberPrompt, contentType |-> ""],
    [prompt |-> stringPrompt(PromptStopWords), contentType |-> ""],
    [prompt |-> stringPrompt(PromptHealthcare), contentType |-> "article"],
    [prompt |-> stringPrompt(PromptSolar), contentType |-> ""],
    [prompt |-> stringPrompt(PromptCloud), contentType |-> "blog"] }

(***************************************************************************)
(* Images.                                                                 *)
(***************************************************************************)
\* data.results[0].urls.regular of the search for a keyword
unsplashUrl(keyword) == [kind |-> "unsplash", keyword |-> keyword, id |-> 0, t |-> 0]

\* picsumUrl with the slot index left out of the formula
picsumUrlNoIndex(baseTime, index) ==
  [kind |-> "picsum", keyword |-> "", id |-> (baseTime % 1000) + 1, t |-> baseTime]

\* generate.js:189-192, part_001:297-299
picsumUrl(baseTime, index) ==
  [kind |-> "picsum", keyword |-> "",
   id |-> ((baseTime + index * 100) % 1000) + 1, t |-> baseTime + index]

\* generate.js:216-218, part_001:308-310: a placeholder URL with no &t= part
fixedPicsumUrl(n) == [kind |-> "picsum", keyword |-> "", id |-> n, t |-> -1]

\* the data: URI an AI-image call returns
dataUri(model) == [kind |-> "data", keyword |-> model, id |-> 0, t |-> 0]

noImage == [kind |-> "none", keyword |-> "", id |-> 0, t |-> 0]

\* url.startsWith('data:')
startsWithData(url) == url.kind = "data"

\* generate.js:134-137
unsplashResult(keyword) == [url |-> unsplashUrl(keyword), source |-> "unsplash"]

\* padWithPicsum padding only a list that is empty
padWithPicsumWhenEmpty(imageResults, baseTime) ==
  IF Len(imageResults) > 0 THEN imageResults
  ELSE [i \in 1..ImageSlots |->
          [url |-> picsumUrl(baseTime, i - 1), source |-> "stock"]]

\* generate.js:183-196: imageResults after the padding loop
padWithPicsum(imageResults, baseTime) ==
  imageResults \o
    [i \in 1..(ImageSlots - Len(imageResults)) |->
       [url |-> picsumUrl(baseTime, Len(imageResults) + i - 1), source |-> "stock"]]

\* imageSuggestions with the tags taken before the padding
imageSuggestionsTagsBeforePadding(found, baseTime) ==
  LET kept == slice(padWithPicsum(found, baseTime), ImageSlots)
  IN [images |-> [i \in 1..Len(kept) |-> kept[i].url],
      tags   |-> [i \in 1..Len(found) |-> found[i].source]]

\* generate.js:198-209: what generateImageSuggestions returns from its try block
imageSuggestions(found, baseTime) ==
  LET imageResults == padWithPicsum(found, baseTime)
      kept         == slice(imageResults, ImageSlots)
  IN [images |-> [i \in 1..Len(kept) |-> kept[i].url],
      tags   |-> [i \in 1..Len(kept) |-> kept[i].source]]

\* generate.js:210-222: what generateImageSuggestions returns from its catch block
fallbackSuggestions ==
  [images |-> <<fixedPicsumUrl(1), fixedPicsumUrl(2), fixedPicsumUrl(3)>>,
   tags   |-> <<"stock", "stock", "stock">>]

\* part_001:293-303: images after the padding loop, cut to three
imageSuggestionsVariant(images, baseTime) ==
  slice(images \o [i \in 1..(ImageSlots - Len(images)) |->
                     picsumUrl(baseTime, Len(images) + i - 1)],
        ImageSlots)

\* part_001:307-311
fallbackSuggestionsVariant == <<fixedPicsumUrl(1), fixedPicsumUrl(2), fixedPicsumUrl(3)>>

(***************************************************************************)
(* Responses.                                                              *)
(***************************************************************************)
response(status, message, content, wordCount, images, imageTypes) ==
  [status |-> status, error |-> message, content |-> content, wordCount |-> wordCount,
   images |-> images, imageTypes |-> imageTypes]

\* generate.js:276, part_001:353
badRequest == response(400, <<"Prompt", "is", "required">>, <<>>, 0, <<>>, <<>>)

\* okResponse with a 500 when no photo search gave an image
okResponseOrFail(content, imageResult) ==
  IF \A i \in 1..Len(imageResult.tags) : imageResult.tags[i] # "unsplash"
  THEN response(500, <<"Failed", "to", "generate", "content.">>, <<>>, 0, <<>>, <<>>)
  ELSE response(200, <<>>, content, Len(splitWhitespace(content)),
                imageResult.images, imageResult.tags)

\* generate.js:342-348
okResponse(content, imageResult) ==
  response(200, <<>>, content, Len(splitWhitespace(content)),
           imageResult.images, imageResult.tags)

\* part_001:406-416
okResponseVariant(content, imageUrls) ==
  response(200, <<>>, content, Len(splitWhitespace(content)), imageUrls,
           << IF Len(imageUrls) > 0 /\ startsWithData(imageUrls[1])
              THEN "ai-generated" ELSE "stock",
              "stock", "stock" >>)

\* errorResponse answering 503 Service Unavailable
errorResponseUnavailable(message) ==
  response(503,
           <<"Failed", "to", "generate", "content.">> \o
             (IF includes(message, "quota")
              THEN <<"Free", "tier", "quota", "exceeded.">>
              ELSE message),
           <<>>, 0, <<>>, <<>>)

\* generate.js:351-356
errorResponse(message) ==
  response(500,
           <<"Failed", "to", "generate", "content.">> \o
             (IF includes(message, "quota")
              THEN <<"Free", "tier", "quota", "exceeded.">>
              ELSE message),
           <<>>, 0, <<>>, <<>>)

\* part_001:419
errorResponseVariant(message) ==
  response(500, <<"Failed", "to", "generate", "content">>, <<>>, 0, <<>>, <<>>)

(***************************************************************************)
(* The route handler of backend/routes/generate.js.                        *)
(***************************************************************************)
\* the outcomes of one photo-search call: a result, an empty result list, a
\* non-OK HTTP status, a thrown error
PhotoOutcomes == {"found", "empty", "httpError", "throws"}

\* skipsSearch with the credential check left out
skipsSearchNever(hasKey) == FALSE

\* generate.js:106, part_001:225: the search is skipped without a credential
skipsSearch(hasKey) == ~hasKey

\* generate.js:125-144: images after the search for keyword returned outcome
collectResult(images, keyword, outcome) ==
  IF outcome = "found" THEN Append(images, unsplashResult(keyword)) ELSE images

\* generate.js:147-153 and 175-180: what fetchUnsplashImages adds to imageResults
\* (null and the empty list add nothing)
unsplashImages(images) == IF Len(images) > 0 THEN images ELSE <<>>

\* the per-request state as the handler finds it
freshRequest ==
  /\ textCalls' = <<>>
  /\ waits' = <<>>
  /\ text' = <<>>
  /\ thrown' = <<>>
  /\ keywords' = <<>>
  /\ kwIdx' = 1
  /\ unsplashFound' = <<>>
  /\ photoCalls' = <<>>
  /\ aiImage' = noImage
  /\ aiCalls' = <<>>
  /\ modelIdx' = 1
  /\ attempt' = 0

\* generate.js:271-324, part_001:348-401: a request arrives; it is answered
\* 400 at once, or generateWithRetry makes its first call
Receive ==
  /\ pc = "idle"
  /\ \E r \in Requests :
       /\ req' = r
       /\ IF ~isTruthy(r.prompt)
          THEN responses' = <<badRequest>> /\ pc' = "done"
          ELSE responses' = <<>> /\ pc' = "generating"
  /\ freshRequest
  /\ models' = IF variant = "stock" THEN StockModels ELSE VariantModels
  /\ maxRetries' = DefaultMaxRetries
  /\ UNCHANGED <<variant, hasUnsplashKey, isRateLimited, rateLimitResetTime, now>>
  /\ UNCHANGED <<clientVars, cooldownVars, pdfVars>>

\* generate.js:349-357, part_001:417-420: generateWithRetry threw
RespondError ==
  /\ pc = "exhausted"
  /\ responses' = Append(responses,
       IF variant = "stock" THEN errorResponse(thrown) ELSE errorResponseVariant(thrown))
  /\ pc' = "done"
  /\ UNCHANGED <<variant, hasUnsplashKey, req, keywords, kwIdx, unsplashFound, photoCalls,
                 aiImage, aiCalls, isRateLimited, rateLimitResetTime, now>>
  /\ UNCHANGED retryVars
  /\ UNCHANGED <<clientVars, cooldownVars, pdfVars>>

\* generate.js:324-348 with 162-181: generateWithRetry returned; the keywords
\* are extracted and the first photo search is issued, or, with no credential
\* or a prompt that is no string, the response is sent; Date.now() at
\* generate.js:183 reads one of times
StartImagesAt(times) ==
  /\ pc = "generated"
  /\ variant = "stock"
  /\ IF req.prompt.kind # "string"
     THEN /\ keywords' = <<>>
          /\ responses' = Append(responses, okResponse(text, fallbackSuggestions))
          /\ pc' = "done"
     ELSE /\ keywords' = slice(extractKeywordsSimple(req.prompt.chars, req.contentType), 3)
          /\ IF skipsSearch(hasUnsplashKey)
             THEN /\ \E baseTime \in times :
                       responses' = Append(responses,
                         okResponse(text, imageSuggestions(unsplashImages(<<>>), baseTime)))
                  /\ pc' = "done"
             ELSE /\ responses' = responses
                  /\ pc' = "searching"
  /\ UNCHANGED <<variant, hasUnsplashKey, req, kwIdx, unsplashFound, photoCalls,
                 aiImage, aiCalls, isRateLimited, rateLimitResetTime, now>>
  /\ UNCHANGED retryVars
  /\ UNCHANGED <<clientVars, cooldownVars, pdfVars>>

\* generate.js:114-158 and 175-209, 331-348: one photo search returns; after
\* the last one the list is padded and the response sent; Date.now() at
\* generate.js:183 reads one of times
PhotoSearchReturnsAt(times) ==
  /\ pc = "searching"
  /\ variant = "stock"
  /\ \E outcome \in PhotoOutcomes :
       LET keyword == keywords[kwIdx]
           images  == collectResult(unsplashFound, keyword, outcome)
       IN /\ photoCalls' = Append(photoCalls, [keyword |-> keyword, outcome |-> outcome])
          /\ unsplashFound' = images
          /\ kwIdx' = kwIdx + 1
          /\ IF kwIdx < Len(keywords)
             THEN responses' = responses /\ pc' = "searching"
             ELSE /\ \E baseTime \in times :
                       responses' = Append(responses,
                         okResponse(text, imageSuggestions(unsplashImages(images), baseTime)))
                  /\ pc' = "done"
  /\ UNCHANGED <<variant, hasUnsplashKey, req, keywords,
                 aiImage, aiCalls, isRateLimited, rateLimitResetTime, now>>
  /\ UNCHANGED retryVars
  /\ UNCHANGED <<clientVars, cooldownVars, pdfVars>>

StartImages == StartImagesAt(TimeLo..TimeHi)

PhotoSearchReturns == PhotoSearchReturnsAt(TimeLo..TimeHi)

(***************************************************************************)
(* The route handler of the Imagen-first variant.                          *)
(***************************************************************************)
\* the outcomes of one AI-image call: an image, a response without an image,
\* a rate-limit/quota error, any other error
AiOutcomes == {"image", "noImage", "rateLimited", "failed"}

\* part_001:28
ImagenModel == "imagen-3.0-generate-002"

\* part_001:80
FlashModel == "gemini-2.0-flash-exp"

\* shouldSkipAIImageGeneration still skipping at the reset time itself
shouldSkipThroughResetTime(limited, t, resetTime) == limited /\ t <= resetTime

\* part_001:12-19: the value shouldSkipAIImageGeneration returns at time t
shouldSkipAIImageGeneration(limited, t, resetTime) == limited /\ t < resetTime

\* flagAfter with the reset time set to Date.now()
flagAfterNoCooldown(outcome, limited, resetTime, t) ==
  IF outcome = "rateLimited" THEN <<TRUE, t>> ELSE <<limited, resetTime>>

\* part_001:65-69, 113-117: the flag and the reset time after a call's outcome
flagAfter(outcome, limited, resetTime, t) ==
  IF outcome = "rateLimited" THEN <<TRUE, t + CooldownMs>> ELSE <<limited, resetTime>>

\* part_001:275-278: images with the AI image, when there is one
withAiImage(image) == IF image.kind = "data" THEN <<image>> ELSE <<>>

\* part_001:243-248: images after the search for keyword returned outcome
collectResultVariant(images, keyword, outcome) ==
  IF outcome = "found" THEN Append(images, unsplashUrl(keyword)) ELSE images

\* part_001:251-255, 288-291: what fetchUnsplashImages adds to images; a
\* thrown error ends the function in its catch block
unsplashImagesVariant(images, threw) == IF threw \/ Len(images) = 0 THEN <<>> ELSE images

\* part_001:280-303, 404-416: the handler once the AI-image step is over: the
\* keywords are extracted and the first photo search is issued, or, with no
\* credential or a prompt that is no string, the response is sent
AfterAiImage(image) ==
  /\ aiImage' = image
  /\ IF req.prompt.kind # "string"
     THEN /\ keywords' = <<>>
          /\ responses' = Append(responses,
                                 okResponseVariant(text, fallbackSuggestionsVariant))
          /\ pc' = "done"
     ELSE /\ keywords' = slice(extractKeywordsSimpleVariant(req.prompt.chars,
                                                            req.contentType),
                               VariantKeywordSlots)
          /\ IF skipsSearch(hasUnsplashKey)
             THEN /\ responses' = Append(responses,
                       okResponseVariant(text,
                         imageSuggestionsVariant(
                           withAiImage(image) \o unsplashImagesVariant(<<>>, FALSE), now)))
                  /\ pc' = "done"
             ELSE /\ responses' = responses
                  /\ pc' = "searching"

\* part_001:401-404 with 261-267 and 22-23: generateWithRetry returned; the
\* Imagen call is issued unless the cooldown is on, and then neither AI call is
StartImagesVariant ==
  /\ pc = "generated"
  /\ variant = "imagen"
  /\ IF shouldSkipAIImageGeneration(isRateLimited, now, rateLimitResetTime)
     THEN /\ AfterAiImage(noImage)
          /\ UNCHANGED <<isRateLimited, aiCalls>>
     ELSE /\ isRateLimited' = FALSE
          /\ aiCalls' = Append(aiCalls,
               [model |-> ImagenModel, startedAt |-> now, outcome |-> "pending"])
          /\ pc' = "imagenCall"
          /\ UNCHANGED <<aiImage, keywords, responses>>
  /\ UNCHANGED <<variant, hasUnsplashKey, req, kwIdx, unsplashFound, photoCalls,
                 rateLimitResetTime, now>>
  /\ UNCHANGED retryVars
  /\ UNCHANGED <<clientVars, cooldownVars, pdfVars>>

\* the last AI call of the log, with its outcome filled in
settled(calls, outcome) == [calls EXCEPT ![Len(calls)].outcome = outcome]

\* part_001:37-72 with 269-278 and 75-76: the Imagen call returns; without an
\* image the Gemini-flash call is issued unless the cooldown is on
ImagenReturns ==
  /\ pc = "imagenCall"
  /\ \E outcome \in AiOutcomes :
       LET flag == flagAfter(outcome, isRateLimited, rateLimitResetTime, now)
       IN /\ rateLimitResetTime' = flag[2]
          /\ IF outcome = "image"
             THEN /\ AfterAiImage(dataUri(ImagenModel))
                  /\ isRateLimited' = flag[1]
                  /\ aiCalls' = settled(aiCalls, outcome)
             ELSE IF shouldSkipAIImageGeneration(flag[1], now, flag[2])
             THEN /\ AfterAiImage(noImage)
                  /\ isRateLimited' = flag[1]
                  /\ aiCalls' = settled(aiCalls, outcome)
             ELSE /\ isRateLimited' = FALSE
                  /\ aiCalls' = Append(settled(aiCalls, outcome),
                       [model |-> FlashModel, startedAt |-> now, outcome |-> "pending"])
                  /\ pc' = "flashCall"
                  /\ UNCHANGED <<aiImage, keywords, responses>>
  /\ UNCHANGED <<variant, hasUnsplashKey, req, kwIdx, unsplashFound, photoCalls, now>>
  /\ UNCHANGED retryVars
  /\ UNCHANGED <<clientVars, cooldownVars, pdfVars>>

\* part_001:89-120 with 275-278: the Gemini-flash call returns
FlashReturns ==
  /\ pc = "flashCall"
  /\ \E outcome \in AiOutcomes :
       LET flag == flagAfter(outcome, isRateLimited, rateLimitResetTime, now)
       IN /\ isRateLimited' = flag[1]
          /\ rateLimitResetTime' = flag[2]
          /\ aiCalls' = settled(aiCalls, outcome)
          /\ AfterAiImage(IF outcome = "image" THEN dataUri(FlashModel) ELSE noImage)
  /\ UNCHANGED <<variant, hasUnsplashKey, req, kwIdx, unsplashFound, photoCalls, now>>
  /\ UNCHANGED retryVars
  /\ UNCHANGED <<clientVars, cooldownVars, pdfVars>>

\* part_001:233-256 and 288-303, 404-416: one photo search returns; after the
\* last one, or when one throws, the list is padded and the response sent
PhotoSearchReturnsVariant ==
  /\ pc = "searching"
  /\ variant = "imagen"
  /\ \E outcome \in PhotoOutcomes :
       LET keyword == keywords[kwIdx]
           images  == collectResultVariant(unsplashFound, keyword, outcome)
           threw   == outcome = "throws"
       IN /\ photoCalls' = Append(photoCalls, [keyword |-> keyword, outcome |-> outcome])
          /\ unsplashFound' = images
          /\ kwIdx' = kwIdx + 1
          /\ IF kwIdx < Len(keywords) /\ ~threw
             THEN responses' = responses /\ pc' = "searching"
             ELSE /\ responses' = Append(responses,
                       okResponseVariant(text,
                         imageSuggestionsVariant(
                           withAiImage(aiImage) \o unsplashImagesVariant(images, threw),
                           now)))
                  /\ pc' = "done"
  /\ UNCHANGED <<variant, hasUnsplashKey, req, keywords,
                 aiImage, aiCalls, isRateLimited, rateLimitResetTime, now>>
  /\ UNCHANGED retryVars
  /\ UNCHANGED <<clientVars, cooldownVars, pdfVars>>

\* the handler has returned: what it held of the request is dropped, the
\* module-level flag stays
Release ==
  /\ pc = "done"
  /\ pc' = "idle"
  /\ req' = NoRequest
  /\ responses' = <<>>
  /\ freshRequest
  /\ UNCHANGED <<variant, hasUnsplashKey, isRateLimited, rateLimitResetTime, now,
                 models, maxRetries>>
  /\ UNCHANGED <<clientVars, cooldownVars, pdfVars>>

\* time passes
Tick ==
  /\ variant = "imagen"
  /\ now < MaxTicks * TickMs
  /\ now' = now + TickMs
  /\ UNCHANGED <<variant, hasUnsplashKey, pc, req, keywords, kwIdx, unsplashFound,
                 photoCalls, aiImage, aiCalls, isRateLimited, rateLimitResetTime,
                 responses>>
  /\ UNCHANGED retryVars
  /\ UNCHANGED <<clientVars, cooldownVars, pdfVars>>

(***************************************************************************)
(* The server: one of the two route files mounted, requests handled one    *)
(* after the other.                                                        *)
(***************************************************************************)
Init ==
  /\ variant \in {"stock", "imagen"}
  /\ hasUnsplashKey \in BOOLEAN
  /\ pc = "idle"
  /\ req = NoRequest
  /\ models = <<>>
  /\ maxRetries = DefaultMaxRetries
  /\ modelIdx = 1
  /\ attempt = 0
  /\ textCalls = <<>>
  /\ waits = <<>>
  /\ text = <<>>
  /\ thrown = <<>>
  /\ keywords = <<>>
  /\ kwIdx = 1
  /\ unsplashFound = <<>>
  /\ photoCalls = <<>>
  /\ aiImage = noImage
  /\ aiCalls = <<>>
  /\ isRateLimited = FALSE
  /\ rateLimitResetTime = 0
  /\ now = 0
  /\ responses = <<>>
  /\ ClientInit
  /\ CooldownIdle
  /\ PdfIdle

Next ==
  \/ Receive
  \/ TextCallSucceeds
  \/ TextCallFails
  \/ TextCallFailsVariant
  \/ RespondError
  \/ StartImages
  \/ PhotoSearchReturns
  \/ StartImagesVariant
  \/ ImagenReturns
  \/ FlashReturns
  \/ PhotoSearchReturnsVariant
  \/ Release
  \/ Tick

Spec == Init /\ [][Next]_vars

\* the clock readings of one request: the ends of the window, since the
\* reading only numbers the placeholder urls
LiveTimes == {TimeLo, TimeHi}

StartImagesLive == StartImagesAt(LiveTimes)

PhotoSearchReturnsLive == PhotoSearchReturnsAt(LiveTimes)

\* the steps of the handler that follow an await: the awaited call settles
\* (it returns or throws, and a setTimeout of the retry loop fires) and the
\* event loop runs the continuation
HandlerStep ==
  \/ TextCallSucceeds
  \/ TextCallFails
  \/ TextCallFailsVariant
  \/ RespondError
  \/ StartImagesLive
  \/ PhotoSearchReturnsLive
  \/ StartImagesVariant
  \/ ImagenReturns
  \/ FlashReturns
  \/ PhotoSearchReturnsVariant

\* the server about to receive a request: started afresh, or, in the variant,
\* with the flag a rate-limited AI-image call of an earlier request at time 0
\* has left, before or after the cooldown
InitLive ==
  /\ variant \in {"stock", "imagen"}
  /\ hasUnsplashKey \in BOOLEAN
  /\ pc = "idle"
  /\ req = NoRequest
  /\ models = <<>>
  /\ maxRetries = DefaultMaxRetries
  /\ modelIdx = 1
  /\ attempt = 0
  /\ textCalls = <<>>
  /\ waits = <<>>
  /\ text = <<>>
  /\ thrown = <<>>
  /\ keywords = <<>>
  /\ kwIdx = 1
  /\ unsplashFound = <<>>
  /\ photoCalls = <<>>
  /\ aiImage = noImage
  /\ aiCalls = <<>>
  /\ isRateLimited \in (IF variant = "imagen" THEN BOOLEAN ELSE {FALSE})
  /\ rateLimitResetTime = IF isRateLimited THEN CooldownMs ELSE 0
  /\ now \in (IF isRateLimited THEN {0, TickMs} ELSE {0})
  /\ responses = <<>>
  /\ ClientInit
  /\ CooldownIdle
  /\ PdfIdle

NextLive == Receive \/ HandlerStep

\* one request, every awaited call of which settles
SpecLive == InitLive /\ [][NextLive]_vars /\ WF_vars(HandlerStep)

(***************************************************************************)
(* The AI-image step of the Imagen-first variant with several requests in  *)
(* the step at once. A handler runs until its next await, so the check of  *)
(* shouldSkipAIImageGeneration and the start of the call it allows are one *)
(* step, and so are the settling of a call and its catch block.            *)
(***************************************************************************)
aiEvent(r, model, kind) == [request |-> r, model |-> model, kind |-> kind, at |-> now]

\* part_001:12-19 with 22-23 and 76-77: request r enters an AI-image function
\* for model: it returns null at once, or the flag is cleared and the call
\* is started
CheckAndCall(r, model, calling, skipped) ==
  IF shouldSkipAIImageGeneration(isRateLimited, now, rateLimitResetTime)
  THEN /\ aiEvents' = Append(aiEvents, aiEvent(r, model, "skipped"))
       /\ aiStep' = [aiStep EXCEPT ![r] = skipped]
       /\ UNCHANGED <<isRateLimited, rateLimitResetTime>>
  ELSE /\ isRateLimited' = FALSE
       /\ aiEvents' = Append(aiEvents, aiEvent(r, model, "started"))
       /\ aiStep' = [aiStep EXCEPT ![r] = calling]
       /\ UNCHANGED rateLimitResetTime

\* part_001:25-71 and 79-119: the call of request r for model settles: with
\* an image, without one, or with an error, which the catch block inspects
Settle(r, model, withImage, withoutImage) ==
  \E outcome \in AiOutcomes :
    LET flag == flagAfter(outcome, isRateLimited, rateLimitResetTime, now)
    IN /\ isRateLimited' = flag[1]
       /\ rateLimitResetTime' = flag[2]
       /\ aiEvents' = Append(aiEvents, aiEvent(r, model, outcome))
       /\ aiStep' = [aiStep EXCEPT ![r] = IF outcome = "image" THEN withImage
                                          ELSE withoutImage]

CooldownFrame ==
  /\ UNCHANGED <<variant, hasUnsplashKey, pc, req, keywords, kwIdx, unsplashFound,
                 photoCalls, aiImage, aiCalls, responses>>
  /\ UNCHANGED retryVars
  /\ UNCHANGED <<clientVars, pdfVars>>

\* part_001:267 with 22-23: generateImageSuggestions calls generateImageWithImagen
CallImagen ==
  \E r \in 1..MaxRequests :
    /\ aiStep[r] = "handler"
    /\ CheckAndCall(r, ImagenModel, "imagenCall", "imagenReturned")
    /\ UNCHANGED now
    /\ CooldownFrame

\* part_001:37-71: the Imagen call settles
ImagenSettles ==
  \E r \in 1..MaxRequests :
    /\ aiStep[r] = "imagenCall"
    /\ Settle(r, ImagenModel, "aiImage", "imagenReturned")
    /\ UNCHANGED now
    /\ CooldownFrame

\* part_001:270-273 with 76-77: without an image,
\* generateImageWithGemini2Flash is called
CallFlash ==
  \E r \in 1..MaxRequests :
    /\ aiStep[r] = "imagenReturned"
    /\ CheckAndCall(r, FlashModel, "flashCall", "stockOnly")
    /\ UNCHANGED now
    /\ CooldownFrame

\* part_001:89-119: the Gemini-flash call settles
FlashSettles ==
  \E r \in 1..MaxRequests :
    /\ aiStep[r] = "flashCall"
    /\ Settle(r, FlashModel, "aiImage", "stockOnly")
    /\ UNCHANGED now
    /\ CooldownFrame

\* time passes
CooldownTick ==
  /\ now < MaxCooldownTicks * CooldownTickMs
  /\ now' = now + CooldownTickMs
  /\ UNCHANGED <<isRateLimited, rateLimitResetTime, aiStep, aiEvents>>
  /\ CooldownFrame

\* part_001:7-10: the module is loaded and MaxRequests requests have their
\* text and are about to enter the AI-image step
InitCooldown ==
  /\ variant = "imagen"
  /\ hasUnsplashKey = FALSE
  /\ pc = "idle"
  /\ req = NoRequest
  /\ models = VariantModels
  /\ maxRetries = DefaultMaxRetries
  /\ modelIdx = 1
  /\ attempt = 0
  /\ textCalls = <<>>
  /\ waits = <<>>
  /\ text = <<>>
  /\ thrown = <<>>
  /\ keywords = <<>>
  /\ kwIdx = 1
  /\ unsplashFound = <<>>
  /\ photoCalls = <<>>
  /\ aiImage = noImage
  /\ aiCalls = <<>>
  /\ isRateLimited = FALSE
  /\ rateLimitResetTime = 0
  /\ now = 0
  /\ responses = <<>>
  /\ ClientInit
  /\ aiStep = [r \in 1..MaxRequests |-> "handler"]
  /\ aiEvents = <<>>
  /\ PdfIdle

NextCooldown ==
  \/ CallImagen
  \/ ImagenSettles
  \/ CallFlash
  \/ FlashSettles
  \/ CooldownTick

SpecCooldown == InitCooldown /\ [][NextCooldown]_vars

(***************************************************************************)
(* The client editor (AppComponent).                                       *)
(***************************************************************************)
\* what the user has typed into the prompt box and the refine box when
\* generate() and refineContent() run
ClientPrompts == { <<" ">>, <<"s","o","l","a","r">> }

RefinePrompts == { <<"s","h","o","r","t","e","r">> }

\* what the user types into the edit buffer
EditedTexts == { <<"E","d","i","t","e","d"," ">> }

ErrEnterPrompt == "Please enter a prompt"
ErrGenerate == "Failed to generate content. Please try again."
ErrRefine == "Failed to refine content. Please try again."

\* String.prototype.trim() leaves nothing
trimIsEmpty(s) == isBlank(s)

\* addToHistory appending the entry at the end of the list
addToHistoryPush(history, content, time) ==
  Append(history, [content |-> content, timestamp |-> time])

\* addToHistory overwriting the newest entry
addToHistoryReplace(history, content, time) ==
  <<[content |-> content, timestamp |-> time]>> \o
    (IF history = <<>> THEN <<>> ELSE Tail(history))

\* app.component.ts:196-199: contentHistory after unshift
addToHistory(history, content, time) ==
  <<[content |-> content, timestamp |-> time]>> \o history

\* the requests sent and not yet answered
pending == inFlight.generate + inFlight.refine

\* the contents put into the history since it was last emptied, oldest first
logged(content) == Append(opLog, content)

\* app.component.ts:161-178: generate() up to the request being sent, with
\* the prompt the user typed
Generate ==
  /\ pending < MaxInFlight
  /\ \E typed \in ClientPrompts :
       /\ prompt' = typed
       /\ IF trimIsEmpty(typed)
          THEN /\ error' = ErrEnterPrompt
               /\ UNCHANGED <<isLoading, generatedContent, actualWordCount, inFlight>>
          ELSE /\ isLoading' = TRUE
               /\ error' = ""
               /\ generatedContent' = <<>>
               /\ actualWordCount' = 0
               /\ inFlight' = [inFlight EXCEPT !.generate = @ + 1]
  /\ UNCHANGED <<isRefining, refinePrompt, contentStatus, isEditing, editableContent,
                 contentHistory, currentVersion, clientTime, opLog>>
  /\ UNCHANGED <<serverVars, retryVars, cooldownVars, pdfVars, rendered>>

\* app.component.ts:179-186: the next callback of generate()
GenerateResponds ==
  /\ Len(contentHistory) < MaxHistory
  /\ inFlight.generate > 0
  /\ inFlight' = [inFlight EXCEPT !.generate = @ - 1]
  /\ \E content \in Texts :
       /\ generatedContent' = content
       /\ actualWordCount' = Len(splitWhitespace(content))
       /\ contentHistory' = addToHistory(contentHistory, content, clientTime)
       /\ opLog' = logged(content)
  /\ contentStatus' = "draft"
  /\ currentVersion' = 0
  /\ isLoading' = FALSE
  /\ UNCHANGED <<prompt, isRefining, error, refinePrompt, isEditing, editableContent,
                 clientTime>>
  /\ UNCHANGED <<serverVars, retryVars, cooldownVars, pdfVars, rendered>>

\* app.component.ts:187-191: the error callback of generate()
GenerateFails ==
  /\ inFlight.generate > 0
  /\ inFlight' = [inFlight EXCEPT !.generate = @ - 1]
  /\ error' = ErrGenerate
  /\ isLoading' = FALSE
  /\ UNCHANGED <<prompt, generatedContent, actualWordCount, isRefining, refinePrompt,
                 contentStatus, isEditing, editableContent, contentHistory, currentVersion,
                 clientTime, opLog>>
  /\ UNCHANGED <<serverVars, retryVars, cooldownVars, pdfVars, rendered>>

\* loadVersion taking the index as a position counted from 1
LoadVersionOneBased ==
  /\ \E index \in 0..(Len(contentHistory) - 1) :
       /\ currentVersion' = index + 1
       /\ generatedContent' = contentHistory[index + 1].content
       /\ actualWordCount' = Len(splitWhitespace(contentHistory[index + 1].content))
  /\ UNCHANGED <<prompt, isLoading, isRefining, error, refinePrompt, contentStatus,
                 isEditing, editableContent, contentHistory, inFlight, clientTime, opLog>>
  /\ UNCHANGED <<serverVars, retryVars, cooldownVars, pdfVars, rendered>>

\* app.component.ts:203-207, for an index of the list
LoadVersion ==
  /\ \E index \in 0..(Len(contentHistory) - 1) :
       /\ currentVersion' = index
       /\ generatedContent' = contentHistory[index + 1].content
       /\ actualWordCount' = Len(splitWhitespace(contentHistory[index + 1].content))
  /\ UNCHANGED <<prompt, isLoading, isRefining, error, refinePrompt, contentStatus,
                 isEditing, editableContent, contentHistory, inFlight, clientTime, opLog>>
  /\ UNCHANGED <<serverVars, retryVars, cooldownVars, pdfVars, rendered>>

\* app.component.ts:209-211
ApproveContent ==
  /\ contentStatus' = "approved"
  /\ UNCHANGED <<prompt, generatedContent, actualWordCount, isLoading, isRefining, error,
                 refinePrompt, isEditing, editableContent, contentHistory, currentVersion,
                 inFlight, clientTime, opLog>>
  /\ UNCHANGED <<serverVars, retryVars, cooldownVars, pdfVars, rendered>>

\* rejectContent leaving the history as it is
RejectContentKeepsHistory ==
  /\ contentStatus' = "rejected"
  /\ generatedContent' = <<>>
  /\ UNCHANGED <<prompt, actualWordCount, isLoading, isRefining, error, refinePrompt,
                 isEditing, editableContent, contentHistory, currentVersion, inFlight,
                 clientTime, opLog>>
  /\ UNCHANGED <<serverVars, retryVars, cooldownVars, pdfVars, rendered>>

\* app.component.ts:213-217
RejectContent ==
  /\ contentStatus' = "rejected"
  /\ generatedContent' = <<>>
  /\ contentHistory' = <<>>
  /\ opLog' = <<>>
  /\ UNCHANGED <<prompt, actualWordCount, isLoading, isRefining, error, refinePrompt,
                 isEditing, editableContent, currentVersion, inFlight, clientTime>>
  /\ UNCHANGED <<serverVars, retryVars, cooldownVars, pdfVars, rendered>>

\* app.component.ts:219-222
StartEditing ==
  /\ isEditing' = TRUE
  /\ editableContent' = generatedContent
  /\ UNCHANGED <<prompt, generatedContent, actualWordCount, isLoading, isRefining, error,
                 refinePrompt, contentStatus, contentHistory, currentVersion, inFlight,
                 clientTime, opLog>>
  /\ UNCHANGED <<serverVars, retryVars, cooldownVars, pdfVars, rendered>>

\* saveEdit leaving contentStatus as it is
SaveEditKeepsStatus ==
  /\ Len(contentHistory) < MaxHistory
  /\ \E typed \in {editableContent} \cup (IF isEditing THEN EditedTexts ELSE {}) :
       /\ editableContent' = typed
       /\ generatedContent' = typed
       /\ actualWordCount' = Len(splitWhitespace(typed))
       /\ contentHistory' = addToHistory(contentHistory, typed, clientTime)
       /\ opLog' = logged(typed)
  /\ currentVersion' = 0
  /\ isEditing' = FALSE
  /\ UNCHANGED <<prompt, isLoading, isRefining, error, refinePrompt, inFlight, clientTime,
                 contentStatus>>
  /\ UNCHANGED <<serverVars, retryVars, cooldownVars, pdfVars, rendered>>

\* app.component.ts:224-230, with the edit buffer as it stands or as the user
\* retyped it
SaveEdit ==
  /\ Len(contentHistory) < MaxHistory
  /\ \E typed \in {editableContent} \cup (IF isEditing THEN EditedTexts ELSE {}) :
       /\ editableContent' = typed
       /\ generatedContent' = typed
       /\ actualWordCount' = Len(splitWhitespace(typed))
       /\ contentHistory' = addToHistory(contentHistory, typed, clientTime)
       /\ opLog' = logged(typed)
  /\ currentVersion' = 0
  /\ isEditing' = FALSE
  /\ contentStatus' = "draft"
  /\ UNCHANGED <<prompt, isLoading, isRefining, error, refinePrompt, inFlight, clientTime>>
  /\ UNCHANGED <<serverVars, retryVars, cooldownVars, pdfVars, rendered>>

\* app.component.ts:232-235
CancelEdit ==
  /\ isEditing' = FALSE
  /\ editableContent' = <<>>
  /\ UNCHANGED <<prompt, generatedContent, actualWordCount, isLoading, isRefining, error,
                 refinePrompt, contentStatus, contentHistory, currentVersion, inFlight,
                 clientTime, opLog>>
  /\ UNCHANGED <<serverVars, retryVars, cooldownVars, pdfVars, rendered>>

\* app.component.ts:253-285: refineContent() up to the request being sent, with
\* the refine box as it stands, as typed, or as set by applySuggestion (237-239)
RefineContent ==
  /\ pending < MaxInFlight
  /\ \E typed \in {refinePrompt} \cup RefinePrompts :
       /\ IF trimIsEmpty(typed) \/ generatedContent = <<>>
          THEN UNCHANGED <<isRefining, error, inFlight>>
          ELSE /\ isRefining' = TRUE
               /\ error' = ""
               /\ inFlight' = [inFlight EXCEPT !.refine = @ + 1]
       /\ refinePrompt' = typed
  /\ UNCHANGED <<prompt, generatedContent, actualWordCount, isLoading, contentStatus,
                 isEditing, editableContent, contentHistory, currentVersion, clientTime,
                 opLog>>
  /\ UNCHANGED <<serverVars, retryVars, cooldownVars, pdfVars, rendered>>

\* app.component.ts:286-293: the next callback of refineContent()
RefineResponds ==
  /\ Len(contentHistory) < MaxHistory
  /\ inFlight.refine > 0
  /\ inFlight' = [inFlight EXCEPT !.refine = @ - 1]
  /\ \E content \in Texts :
       /\ generatedContent' = content
       /\ actualWordCount' = Len(splitWhitespace(content))
       /\ contentHistory' = addToHistory(contentHistory, content, clientTime)
       /\ opLog' = logged(content)
  /\ contentStatus' = "draft"
  /\ currentVersion' = 0
  /\ isRefining' = FALSE
  /\ refinePrompt' = <<>>
  /\ UNCHANGED <<prompt, isLoading, error, isEditing, editableContent, clientTime>>
  /\ UNCHANGED <<serverVars, retryVars, cooldownVars, pdfVars, rendered>>

\* app.component.ts:294-298: the error callback of refineContent()
RefineFails ==
  /\ inFlight.refine > 0
  /\ inFlight' = [inFlight EXCEPT !.refine = @ - 1]
  /\ error' = ErrRefine
  /\ isRefining' = FALSE
  /\ UNCHANGED <<prompt, generatedContent, actualWordCount, isLoading, refinePrompt,
                 contentStatus, isEditing, editableContent, contentHistory, currentVersion,
                 clientTime, opLog>>
  /\ UNCHANGED <<serverVars, retryVars, cooldownVars, pdfVars, rendered>>

\* the clock read by new Date() (app.component.ts:198) moves on
ClientTick ==
  /\ clientTime < MaxClientTime
  /\ clientTime' = clientTime + 1
  /\ UNCHANGED <<prompt, generatedContent, actualWordCount, isLoading, isRefining, error,
                 refinePrompt, contentStatus, isEditing, editableContent, contentHistory,
                 currentVersion, inFlight, opLog>>
  /\ UNCHANGED <<serverVars, retryVars, cooldownVars, pdfVars, rendered>>

\* the component after construction, no request being served
InitClient ==
  /\ variant = "stock"
  /\ hasUnsplashKey = FALSE
  /\ pc = "idle"
  /\ req = NoRequest
  /\ models = StockModels
  /\ maxRetries = DefaultMaxRetries
  /\ modelIdx = 1
  /\ attempt = 0
  /\ textCalls = <<>>
  /\ waits = <<>>
  /\ text = <<>>
  /\ thrown = <<>>
  /\ keywords = <<>>
  /\ kwIdx = 1
  /\ unsplashFound = <<>>
  /\ photoCalls = <<>>
  /\ aiImage = [kind |-> "none", keyword |-> "", id |-> 0, t |-> 0]
  /\ aiCalls = <<>>
  /\ isRateLimited = FALSE
  /\ rateLimitResetTime = 0
  /\ now = 0
  /\ responses = <<>>
  /\ ClientInit
  /\ CooldownIdle
  /\ PdfIdle

NextClient ==
  \/ Generate
  \/ GenerateResponds
  \/ GenerateFails
  \/ LoadVersion
  \/ ApproveContent
  \/ RejectContent
  \/ StartEditing
  \/ SaveEdit
  \/ CancelEdit
  \/ RefineContent
  \/ RefineResponds
  \/ RefineFails
  \/ ClientTick

SpecClient == InitClient /\ [][NextClient]_vars

(***************************************************************************)
(* formattedContent (app.component.ts:112-159): the draft as HTML.  The    *)
(* draft and the HTML are sequences of one-character strings.              *)
(***************************************************************************)
StrongOpen  == <<"<","s","t","r","o","n","g",">">>
StrongClose == <<"<","/","s","t","r","o","n","g",">">>
H2Open  == <<"<","h","2",">">>
H2Close == <<"<","/","h","2",">">>
H3Open  == <<"<","h","3",">">>
H3Close == <<"<","/","h","3",">">>
LiOpen  == <<"<","l","i",">">>
LiClose == <<"<","/","l","i",">">>
UlOpen  == <<"<","u","l",">">>
UlClose == <<"<","/","u","l",">">>
POpen   == <<"<","p",">">>
PClose  == <<"<","/","p",">">>

\* the characters that open a bullet line: U+2022 (written "@" in this
\* module), "-" and "*"
BulletChars == {"@", "-", "*"}

\* s.startsWith(p)
startsWith(s, p) == Len(s) >= Len(p) /\ SubSeq(s, 1, Len(p)) = p

\* s.substring(n)
drop(s, n) == SubSeq(s, n + 1, Len(s))

\* s.includes(sub)
includesSeq(s, sub) == \E i \in 0..(Len(s) - Len(sub)) : SubSeq(s, i + 1, i + Len(sub)) = sub

\* how many characters of s come before its first line break: what . can match
lineLength(s) ==
  IF \E i \in 1..Len(s) : s[i] = "\n"
  THEN (CHOOSE i \in 1..Len(s) : s[i] = "\n" /\ \A j \in 1..(i - 1) : s[j] # "\n") - 1
  ELSE Len(s)

\* how many whitespace characters s begins with
whitespaceRun(s) ==
  IF \E i \in 1..Len(s) : s[i] \notin WhitespaceChars
  THEN (CHOOSE i \in 1..Len(s) :
          s[i] \notin WhitespaceChars /\ \A j \in 1..(i - 1) : s[j] \in WhitespaceChars) - 1
  ELSE Len(s)

RECURSIVE replaceBold(_)
\* .replace(/\*\*(.*?)\*\*/g, '<strong>$1</strong>'): the closing ** is the
\* nearest one on the same line; an opening ** without one stays as it is
replaceBold(s) ==
  IF s = <<>> THEN <<>>
  ELSE IF startsWith(s, <<"*", "*">>)
       THEN LET rest   == drop(s, 2)
                closes == {k \in 0..(Len(rest) - 2) :
                             /\ k <= lineLength(rest)
                             /\ rest[k + 1] = "*"
                             /\ rest[k + 2] = "*"}
            IN IF closes # {}
               THEN LET k == CHOOSE x \in closes : \A y \in closes : x <= y
                    IN StrongOpen \o SubSeq(rest, 1, k) \o StrongClose
                         \o replaceBold(drop(rest, k + 2))
               ELSE <<Head(s)>> \o replaceBold(Tail(s))
       ELSE <<Head(s)>> \o replaceBold(Tail(s))

\* \s+(.+)$ matched against s: how many characters \s+ takes (as many as
\* leave a character that is no line break for .+), 0 when there is no match
gapLength(s) ==
  LET fits == {j \in 1..whitespaceRun(s) : j < Len(s) /\ s[j + 1] # "\n"}
  IN IF fits = {} THEN 0 ELSE CHOOSE j \in fits : \A i \in fits : i <= j

RECURSIVE replaceLines(_, _, _, _, _)
\* .replace(/^M\s+(.+)$/gm, open + '$1' + close) for the markers M given:
\* atStart tells whether s begins where ^ matches
replaceLines(s, atStart, markers, open, close) ==
  IF s = <<>> THEN <<>>
  ELSE LET found == {m \in markers : startsWith(s, m) /\ gapLength(drop(s, Len(m))) > 0}
       IN IF atStart /\ found # {}
          THEN LET m     == CHOOSE x \in found : TRUE
                   after == drop(s, Len(m) + gapLength(drop(s, Len(m))))
                   n     == lineLength(after)
               IN open \o SubSeq(after, 1, n) \o close
                    \o replaceLines(drop(after, n), FALSE, markers, open, close)
          ELSE <<Head(s)>> \o replaceLines(Tail(s), Head(s) = "\n", markers, open, close)

\* app.component.ts:115-123: the five replacements, in the order of the code
inlineMarkup(content) ==
  LET bold    == replaceBold(content)
      h3      == replaceLines(bold, TRUE, {<<"#","#","#">>}, H3Open, H3Close)
      h3too   == replaceLines(h3, TRUE, {<<"#","#">>}, H3Open, H3Close)
      h2      == replaceLines(h3too, TRUE, {<<"#">>}, H2Open, H2Close)
  IN replaceLines(h2, TRUE, {<<c>> : c \in BulletChars}, LiOpen, LiClose)

RECURSIVE splitOn(_, _)
\* s.split(sep) for a non-empty separator
splitOn(s, sep) ==
  IF includesSeq(s, sep)
  THEN LET i == CHOOSE k \in 0..(Len(s) - Len(sep)) :
                  /\ SubSeq(s, k + 1, k + Len(sep)) = sep
                  /\ \A j \in 0..(k - 1) : SubSeq(s, j + 1, j + Len(sep)) # sep
       IN <<SubSeq(s, 1, i)>> \o splitOn(drop(s, i + Len(sep)), sep)
  ELSE <<s>>

\* trim cutting one character too many at the end
trimOffByOne(s) ==
  IF isBlank(s) THEN <<>>
  ELSE LET first == whitespaceRun(s) + 1
           last  == CHOOSE i \in 1..Len(s) :
                      /\ s[i] \notin WhitespaceChars
                      /\ \A j \in (i + 1)..Len(s) : s[j] \in WhitespaceChars
       IN SubSeq(s, first, last - 1)

\* s.trim()
trim(s) ==
  IF isBlank(s) THEN <<>>
  ELSE LET first == whitespaceRun(s) + 1
           last  == CHOOSE i \in 1..Len(s) :
                      /\ s[i] \notin WhitespaceChars
                      /\ \A j \in (i + 1)..Len(s) : s[j] \in WhitespaceChars
       IN SubSeq(s, first, last)

\* app.component.ts:140-150: a standalone line taken for a heading
looksLikeHeading(para) ==
  LET lines == splitOn(para, <<"\n">>)
      words == splitOn(para, <<" ">>)
  IN /\ Len(lines) = 1
     /\ Len(para) < 80
     /\ para[1] \in Range(UpperChars)
     /\ \A i \in 1..Len(para) : para[i] \notin {".", "!", "?"}
     /\ ~startsWith(para, <<"<">>)
     /\ \A i \in 1..Len(words) :
          \/ Len(words[i]) <= 3
          \/ words[i][1] \in Range(UpperChars)

\* app.component.ts:127-155: one paragraph of the split
processParagraph(paragraph) ==
  LET para == trim(paragraph)
  IN IF para = <<>> THEN <<>>
     ELSE IF startsWith(para, <<"<", "h">>) THEN para
     ELSE IF includesSeq(para, LiOpen) THEN UlOpen \o para \o UlClose
     ELSE IF looksLikeHeading(para) THEN H3Open \o para \o H3Close
     ELSE POpen \o para \o PClose

RECURSIVE joinAll(_)
\* processed.join('')
joinAll(parts) == IF parts = <<>> THEN <<>> ELSE Head(parts) \o joinAll(Tail(parts))

\* app.component.ts:112-159
formattedContent(content) ==
  IF content = <<>> THEN <<>>
  ELSE LET paragraphs == splitOn(inlineMarkup(content), <<"\n", "\n">>)
       IN joinAll([i \in 1..Len(paragraphs) |-> processParagraph(paragraphs[i])])

\* the pieces drafts are built from: markers, line and paragraph breaks,
\* words, punctuation, a piece of raw HTML and a word in bold
ContentPieces ==
  { <<"*","*">>, <<"#"," ">>, <<"#","#"," ">>, <<"#","#","#"," ">>, <<"-"," ">>,
    <<"\n">>, <<"\n","\n">>, <<" ">>, <<"G","o">>, <<"n","o","w",".">>,
    <<"T","i","p","s">>, <<":">>, <<"<","b",">">>, <<"*","*","G","o","*","*">> }

\* the component showing a draft of up to MaxPieces pieces that a generate
\* response has just delivered (app.component.ts:179-186)
InitFormat ==
  /\ variant = "stock"
  /\ hasUnsplashKey = FALSE
  /\ pc = "idle"
  /\ req = NoRequest
  /\ models = StockModels
  /\ maxRetries = DefaultMaxRetries
  /\ modelIdx = 1
  /\ attempt = 0
  /\ textCalls = <<>>
  /\ waits = <<>>
  /\ text = <<>>
  /\ thrown = <<>>
  /\ keywords = <<>>
  /\ kwIdx = 1
  /\ unsplashFound = <<>>
  /\ photoCalls = <<>>
  /\ aiImage = noImage
  /\ aiCalls = <<>>
  /\ isRateLimited = FALSE
  /\ rateLimitResetTime = 0
  /\ now = 0
  /\ responses = <<>>
  /\ \E n \in 0..MaxPieces :
       \E pieces \in [1..n -> ContentPieces] :
         /\ generatedContent = joinAll(pieces)
         /\ actualWordCount = Len(splitWhitespace(joinAll(pieces)))
         /\ contentHistory = addToHistory(<<>>, joinAll(pieces), 0)
         /\ opLog = <<joinAll(pieces)>>
  /\ prompt = <<"s","o","l","a","r">>
  /\ isLoading = FALSE
  /\ isRefining = FALSE
  /\ error = ""
  /\ refinePrompt = <<>>
  /\ contentStatus = "draft"
  /\ isEditing = FALSE
  /\ editableContent = <<>>
  /\ currentVersion = 0
  /\ inFlight = [generate |-> 0, refine |-> 0]
  /\ clientTime = 0
  /\ rendered = <<>>
  /\ CooldownIdle
  /\ PdfIdle

\* app.component.ts:112-159: the template reads the getter
Render ==
  /\ rendered = <<>>
  /\ rendered' = <<formattedContent(generatedContent)>>
  /\ UNCHANGED <<prompt, generatedContent, actualWordCount, isLoading, isRefining, error,
                 refinePrompt, contentStatus, isEditing, editableContent, contentHistory,
                 currentVersion, inFlight, clientTime, opLog>>
  /\ UNCHANGED <<serverVars, retryVars, cooldownVars, pdfVars>>

NextFormat == Render

SpecFormat == InitFormat /\ [][NextFormat]_vars

(***************************************************************************)
(* extractKeywordsSimple on its own.                                       *)
(***************************************************************************)
\* the tokens prompts are built from: "The", "AI", "and,", "sun", "e-mail",
\* "solar", "Power!", "energy"
KeywordTokens ==
  { <<"T","h","e">>, <<"A","I">>, <<"a","n","d",",">>, <<"s","u","n">>,
    <<"e","-","m","a","i","l">>, <<"s","o","l","a","r">>,
    <<"P","o","w","e","r","!">>, <<"e","n","e","r","g","y">>, <<"g","r","i","d">> }

\* the contentType of a request; "" when it has none
ContentTypes == {"", "article", "blog"}

RECURSIVE joinTokens(_)
\* the tokens with one blank between neighbours
joinTokens(tokens) ==
  IF tokens = <<>> THEN <<>>
  ELSE IF Len(tokens) = 1 THEN tokens[1]
  ELSE tokens[1] \o <<" ">> \o joinTokens(Tail(tokens))

\* any prompt of up to MaxPromptTokens tokens and any content type, under
\* either route file
InitKeywords ==
  /\ variant \in {"stock", "imagen"}
  /\ hasUnsplashKey = FALSE
  /\ pc = "idle"
  /\ \E n \in 0..MaxPromptTokens, contentType \in ContentTypes :
       \E tokens \in [1..n -> KeywordTokens] :
         req = [prompt |-> stringPrompt(joinTokens(tokens)), contentType |-> contentType]
  /\ models = <<>>
  /\ maxRetries = DefaultMaxRetries
  /\ modelIdx = 1
  /\ attempt = 0
  /\ textCalls = <<>>
  /\ waits = <<>>
  /\ text = <<>>
  /\ thrown = <<>>
  /\ keywords = <<>>
  /\ kwIdx = 1
  /\ unsplashFound = <<>>
  /\ photoCalls = <<>>
  /\ aiImage = noImage
  /\ aiCalls = <<>>
  /\ isRateLimited = FALSE
  /\ rateLimitResetTime = 0
  /\ now = 0
  /\ responses = <<>>
  /\ ClientInit
  /\ CooldownIdle
  /\ PdfIdle

\* generate.js:96-100: extractImageKeywords hands the prompt to extractKeywordsSimple
ExtractKeywords ==
  /\ variant = "stock"
  /\ pc = "idle"
  /\ keywords' = extractKeywordsSimple(req.prompt.chars, req.contentType)
  /\ pc' = "extracted"
  /\ UNCHANGED <<variant, hasUnsplashKey, req, kwIdx, unsplashFound, photoCalls, aiImage,
                 aiCalls, isRateLimited, rateLimitResetTime, now, responses>>
  /\ UNCHANGED <<retryVars, clientVars, cooldownVars, pdfVars>>

\* part_001:215-219: extractImageKeywords hands the prompt to extractKeywordsSimple
ExtractKeywordsVariant ==
  /\ variant = "imagen"
  /\ pc = "idle"
  /\ keywords' = extractKeywordsSimpleVariant(req.prompt.chars, req.contentType)
  /\ pc' = "extracted"
  /\ UNCHANGED <<variant, hasUnsplashKey, req, kwIdx, unsplashFound, photoCalls, aiImage,
                 aiCalls, isRateLimited, rateLimitResetTime, now, responses>>
  /\ UNCHANGED <<retryVars, clientVars, cooldownVars, pdfVars>>

NextKeywords == ExtractKeywords \/ ExtractKeywordsVariant

SpecKeywords == InitKeywords /\ [][NextKeywords]_vars

(***************************************************************************)
(* downloadAsPDF (app.component.ts:439-606). Lengths are in mm, as the     *)
(* document is created with unit 'mm'. The images are given by what        *)
(* loadImageAsBase64 does with each, the content by the child nodes of     *)
(* tempDiv, each text by the number of lines splitTextToSize cuts it into  *)
(* (0 for a text that is empty after trim). A STRONG or other element only *)
(* passes its child nodes to processNode, so its children stand in its     *)
(* place in the list.                                                      *)
(***************************************************************************)
\* app.component.ts:442 (the height of an a4 page in mm)
PageHeight == 297
\* app.component.ts:443
Margin == 20
\* app.component.ts:493
ImageHeight == 60

\* app.component.ts:508: the font size of the content, in pt
ContentFontSize == 11

\* the distance in hundredths of a mm between the baselines of two lines of one
\* pdf.text call: the font size in pt times the line height factor 1.15 that
\* the document keeps, a pt being 25.4/72 mm
lineAdvance(fontSize) == (fontSize * 115 * 254) \div 720

\* what loadImageAsBase64 (608-635) does with an image: it resolves, img.onerror
\* rejects, canvas.toDataURL throws and the promise rejects
ImageLoads == {"loaded", "loadError", "encodeError"}

\* the numbers of lines of the texts of this model
LineCounts == {0, 1, 4, 50}

textNode(n) == [tag |-> "#text", lines |-> n, items |-> <<>>]

element(tag, n) == [tag |-> tag, lines |-> n, items |-> <<>>]

ulElement(items) == [tag |-> "UL", lines |-> 0, items |-> items]

\* the child nodes of this model
Nodes ==
  {element("H2", 1), element("H3", 1)}
    \cup {element("P", n) : n \in LineCounts}
    \cup {textNode(n) : n \in LineCounts}
    \cup {ulElement(<<1>>), ulElement(<<4, 0, 1>>), ulElement(<<1, 50>>)}

\* one thing drawn: an image of a height, or lines of text with the first
\* baseline at y; src is the index of the image or of the node
drawing(kind, page, y, lines, height, src) ==
  [kind |-> kind, page |-> page, y |-> y, lines |-> lines, height |-> height, src |-> src]

\* the cursor and the document: yPosition, the number of pages, the drawings
cursor(y, n, d) == [y |-> y, pages |-> n, drawn |-> d]

\* app.component.ts:448-455
checkNewPage(c, requiredSpace) ==
  IF c.y + requiredSpace > PageHeight - Margin
  THEN [c EXCEPT !.pages = @ + 1, !.y = Margin]
  ELSE c

\* yPosition += d
advance(c, d) == [c EXCEPT !.y = @ + d]

\* pdf.text(lines, x, yPosition), pdf.addImage(..., yPosition, ...)
draw(c, kind, lines, height, src) ==
  [c EXCEPT !.drawn = Append(@, drawing(kind, c.pages, c.y, lines, height, src))]

RECURSIVE processItems(_, _, _, _)
\* app.component.ts:555-564: the li elements from the i-th on
processItems(c, items, i, src) ==
  IF i > Len(items) THEN c
  ELSE LET checked == checkNewPage(c, 8)
       IN processItems(
            IF items[i] > 0
            THEN advance(draw(checked, "text", items[i], 0, src), items[i] * 6)
            ELSE checked,
            items, i + 1, src)

\* app.component.ts:516-574
processNode(c, node, src) ==
  CASE node.tag = "#text" ->
         IF node.lines > 0
         THEN advance(draw(checkNewPage(c, 10), "text", node.lines, 0, src),
                      node.lines * 6)
         ELSE c
    [] node.tag = "H2" ->
         advance(draw(advance(checkNewPage(c, 15), 5), "text", 1, 0, src), 10)
    [] node.tag = "H3" ->
         advance(draw(advance(checkNewPage(c, 12), 3), "text", 1, 0, src), 8)
    [] node.tag = "P" ->
         IF node.lines > 0
         THEN advance(draw(checkNewPage(c, 10), "text", node.lines, 0, src),
                      node.lines * 6 + 3)
         ELSE checkNewPage(c, 10)
    [] node.tag = "UL" ->
         advance(processItems(c, node.items, 1, src), 3)

RECURSIVE processNodes(_, _, _)
\* app.component.ts:576: the nodes from the i-th on
processNodes(c, children, i) ==
  IF i > Len(children) THEN c
  ELSE processNodes(processNode(c, children[i], i), children, i + 1)

\* app.component.ts:457-474: title, metadata and separator
header(c) ==
  advance(draw(advance(draw(advance(draw(c, "title", 1, 0, 0), 12),
                            "meta", 1, 0, 0), 10),
               "rule", 0, 0, 0), 10)

\* app.component.ts:506-601: the content, then pdf.save
contentAndSave(c) == processNodes(checkNewPage(c, 20), nodes, 1)

\* the catch block an image that fails to load lands in: the one of the
\* function (602-605)
imageErrorAborts == "abortExport"

\* the catch block an image that fails to load lands in: the one of the loop
\* body (499-501)
imageErrorHandling == "skipImage"

current == cursor(yPosition, pages, drawn)

\* the document and the position of the function become those of c
PdfBecomes(c, position) ==
  /\ yPosition' = c.y
  /\ pages' = c.pages
  /\ drawn' = c.drawn
  /\ pdfPc' = position

PdfFrame ==
  /\ UNCHANGED <<serverVars, retryVars, clientVars, cooldownVars>>
  /\ UNCHANGED <<contentImages, nodes>>

\* app.component.ts:439-491: downloadAsPDF up to its first await, or to its
\* end when there is no image
DownloadAsPDF ==
  /\ pdfPc = "idle"
  /\ LET c == header(cursor(Margin, 1, <<>>))
     IN IF Len(contentImages) > 0
        THEN PdfBecomes(
               checkNewPage(advance(draw(checkNewPage(c, 60), "heading", 1, 0, 0), 8), 70),
               "loading")
        ELSE PdfBecomes(contentAndSave(c), "saved")
  /\ UNCHANGED imageIdx
  /\ PdfFrame

\* app.component.ts:491-504: loadImageAsBase64 settles for image imageIdx; the
\* loop goes on to the next await, or the function to its end
ImageSettles ==
  /\ pdfPc = "loading"
  /\ LET loaded == contentImages[imageIdx] = "loaded"
         after  == IF loaded
                   THEN advance(draw(current, "image", 0, ImageHeight, imageIdx),
                                ImageHeight + 5)
                   ELSE current
     IN IF ~loaded /\ imageErrorHandling = "abortExport"
        THEN PdfBecomes(current, "failed")
        ELSE IF imageIdx < Len(contentImages)
        THEN PdfBecomes(checkNewPage(after, 70), "loading")
        ELSE PdfBecomes(contentAndSave(advance(after, 5)), "saved")
  /\ imageIdx' = imageIdx + 1
  /\ PdfFrame

\* the component with a draft of up to MaxNodes nodes and up to MaxImages images
InitPdf ==
  /\ variant = "stock"
  /\ hasUnsplashKey = FALSE
  /\ pc = "idle"
  /\ req = NoRequest
  /\ models = StockModels
  /\ maxRetries = DefaultMaxRetries
  /\ modelIdx = 1
  /\ attempt = 0
  /\ textCalls = <<>>
  /\ waits = <<>>
  /\ text = <<>>
  /\ thrown = <<>>
  /\ keywords = <<>>
  /\ kwIdx = 1
  /\ unsplashFound = <<>>
  /\ photoCalls = <<>>
  /\ aiImage = noImage
  /\ aiCalls = <<>>
  /\ isRateLimited = FALSE
  /\ rateLimitResetTime = 0
  /\ now = 0
  /\ responses = <<>>
  /\ ClientInit
  /\ CooldownIdle
  /\ pdfPc = "idle"
  /\ \E n \in 0..MaxImages : contentImages \in [1..n -> ImageLoads]
  /\ imageIdx = 1
  /\ \E n \in 0..MaxNodes : nodes \in [1..n -> Nodes]
  /\ yPosition = 0
  /\ pages = 1
  /\ drawn = <<>>

NextPdf == DownloadAsPDF \/ ImageSettles

SpecPdf == InitPdf /\ [][NextPdf]_vars

(***************************************************************************)
(* The word count of the 200 response (generate.js:342-348), on texts made *)
(* of words and whitespace.                                                *)
(***************************************************************************)
\* the pieces the texts of SpecWordCount are made of
TextPieces == { <<"G","o">>, <<" ">>, <<"\n">> }

\* generateWithRetry has returned a text of up to MaxTextPieces pieces for a
\* request with a prompt, on a server without a photo-search credential
InitWordCount ==
  /\ variant = "stock"
  /\ hasUnsplashKey = FALSE
  /\ pc = "generated"
  /\ req = [prompt |-> stringPrompt(PromptSolar), contentType |-> ""]
  /\ models = StockModels
  /\ maxRetries = DefaultMaxRetries
  /\ modelIdx = 1
  /\ attempt = 0
  /\ textCalls = <<[model |-> StockModels[1], attempt |-> 0, ok |-> TRUE, error |-> NoError]>>
  /\ \E n \in 0..MaxTextPieces :
       \E pieces \in [1..n -> TextPieces] : text = joinAll(pieces)
  /\ waits = <<>>
  /\ thrown = <<>>
  /\ keywords = <<>>
  /\ kwIdx = 1
  /\ unsplashFound = <<>>
  /\ photoCalls = <<>>
  /\ aiImage = noImage
  /\ aiCalls = <<>>
  /\ isRateLimited = FALSE
  /\ rateLimitResetTime = 0
  /\ now = 0
  /\ responses = <<>>
  /\ ClientInit
  /\ CooldownIdle
  /\ PdfIdle

NextWordCount == StartImages

SpecWordCount == InitWordCount /\ [][NextWordCount]_vars

(***************************************************************************)
(* Properties.                                                             *)
(***************************************************************************)
\* the provider calls that failed, the ones that succeeded
textSucceeded == \E i \in 1..Len(textCalls) : textCalls[i].ok

has200 == \E i \in 1..Len(responses) : responses[i].status = 200

outcomesOf(calls) == [i \in 1..Len(calls) |-> calls[i].outcome]

RECURSIVE sumMs(_)
sumMs(ws) == IF ws = <<>> THEN 0 ELSE Head(ws).ms + sumMs(Tail(ws))

\* C1: a request whose prompt is missing, empty or made only of whitespace
\* is answered 400 {error: "Prompt is required"} and no call of the text
\* provider or of the photo-search provider is made for it.
C1_BlankPromptRejected ==
  /\ pc = "done"
  /\ \/ req.prompt.kind = "undefined"
     \/ req.prompt.kind = "string" /\ isBlank(req.prompt.chars)
  => /\ responses = <<badRequest>>
     /\ textCalls = <<>>
     /\ photoCalls = <<>>

\* C2: every 200 response has as many imageTypes as images, and between 0
\* and 3 of them, in either route file and whatever the photo searches and
\* the AI-image calls did.
C2_ImagesMatchTypes ==
  \A i \in 1..Len(responses) :
    responses[i].status = 200 =>
      /\ Len(responses[i].images) = Len(responses[i].imageTypes)
      /\ Len(responses[i].images) \in 0..3

\* a 200 response of the variant after a rate-limited AI-image call and a
\* photo search that threw
C2_Witness ==
  /\ variant = "imagen"
  /\ has200
  /\ \E i \in 1..Len(aiCalls) : aiCalls[i].outcome = "rateLimited"
  /\ \E i \in 1..Len(photoCalls) : photoCalls[i].outcome = "throws"

\* C3: generate.js: for a keyword list of 1 to 3 keywords and any outcomes
\* of the photo searches, with or without a credential, the response carries
\* exactly 3 images and 3 tags: the results of the searches that found one,
\* in keyword order and tagged "unsplash", then placeholders tagged "stock".
C3_ThreeImagesRealFirst ==
  variant = "stock" /\ req.prompt.kind = "string" =>
    \A i \in 1..Len(responses) :
      responses[i].status = 200 =>
        LET real == SelectSeq(photoCalls, LAMBDA c : c.outcome = "found")
            r    == responses[i]
        IN /\ Len(keywords) \in 1..3
           /\ Len(r.images) = 3
           /\ Len(r.imageTypes) = 3
           /\ \A j \in 1..3 :
                IF j <= Len(real)
                THEN /\ r.images[j].kind = "unsplash"
                     /\ r.images[j].keyword = real[j].keyword
                     /\ r.imageTypes[j] = "unsplash"
                ELSE /\ r.images[j].kind = "picsum"
                     /\ r.imageTypes[j] = "stock"

\* three keywords searched: the first search threw, the second found an
\* image, the third came back empty
C3_Witness ==
  /\ variant = "stock"
  /\ has200
  /\ outcomesOf(photoCalls) = <<"throws", "found", "empty">>

\* C4: generate.js: when every photo search fails (non-OK status or thrown
\* error) the request is still answered 200 with 3 placeholders, all tagged
\* "stock", built as id = ((baseTime + index*100) mod 1000) + 1 and
\* t = baseTime + index, and the 3 URLs are pairwise distinct.
C4_AllSearchesFail ==
  /\ variant = "stock"
  /\ pc = "done"
  /\ photoCalls # <<>>
  /\ \A i \in 1..Len(photoCalls) : photoCalls[i].outcome \in {"httpError", "throws"}
  => /\ Len(responses) = 1
     /\ responses[1].status = 200
     /\ responses[1].imageTypes = <<"stock", "stock", "stock">>
     /\ Len(responses[1].images) = 3
     /\ LET urls     == responses[1].images
            baseTime == urls[1].t
        IN /\ \A j \in 1..3 :
                /\ urls[j].kind = "picsum"
                /\ urls[j].id = ((baseTime + (j - 1) * 100) % 1000) + 1
                /\ urls[j].t = baseTime + (j - 1)
           /\ \A j, k \in 1..3 : j # k => urls[j] # urls[k]

\* three searches failed and the base time is one at which the second and
\* third placeholder ids wrap around 1000
C4_Witness ==
  /\ variant = "stock"
  /\ pc = "done"
  /\ outcomesOf(photoCalls) = <<"httpError", "throws", "throws">>
  /\ has200
  /\ responses[1].images[1].t = 950

\* C5: generate.js: once a call to a model has failed with HTTP status 404
\* no further call is made to that model.
C5_NotFoundAbandonsModel ==
  variant = "stock" =>
    \A i, j \in 1..Len(textCalls) :
      (i < j /\ ~textCalls[i].ok /\ textCalls[i].error.status = 404)
        => textCalls[j].model # textCalls[i].model

\* C6: when every call fails with an error whose status is not 404,
\* generateWithRetry calls each model maxRetries times in a row, the models in
\* list order, models.length * maxRetries calls in all, then throws the
\* all-models-failed error; it returns no text.
C6_ExhaustionAfterAllAttempts ==
  (\A i \in 1..Len(textCalls) : ~textCalls[i].ok /\ textCalls[i].error.status # 404)
  => /\ pc \in {"generating", "exhausted"}
     /\ text = <<>>
     /\ Len(textCalls) <= Len(models) * maxRetries
     /\ \A i \in 1..Len(textCalls) :
          /\ textCalls[i].model = models[((i - 1) \div maxRetries) + 1]
          /\ textCalls[i].attempt = (i - 1) % maxRetries
     /\ pc = "exhausted" <=> Len(textCalls) = Len(models) * maxRetries
     /\ pc = "exhausted" =>
          thrown = IF variant = "stock" THEN ExhaustedMessage ELSE ExhaustedMessageVariant

\* two models, three attempts each, six failed calls, the error thrown
C6_Witness ==
  /\ pc = "exhausted"
  /\ variant = "stock"
  /\ Len(models) = 2
  /\ maxRetries = 3
  /\ Len(textCalls) = 6
  /\ \A i \in 1..Len(textCalls) : textCalls[i].error.status # 404

\* the wait the claim gives for a failed call: none after the last attempt on
\* a model or after a 404 that ends the attempts on it, else 2000 ms
\* (rate limit or quota) or 1000 ms (anything else) times attempt + 1
C7_ExpectedWait(call) ==
  LET rateLimit == \/ call.error.status = 429
                   \/ includes(call.error.message, "quota")
                   \/ includes(call.error.message, "429")
  IN IF call.ok \/ ~(call.attempt < maxRetries - 1) THEN 0
     ELSE IF rateLimit THEN 2000 * (call.attempt + 1)
     ELSE IF call.error.status = 404 THEN 0
     ELSE 1000 * (call.attempt + 1)

\* C7: generate.js: the wait after failed attempt a on a model is
\* baseDelay * (a + 1), baseDelay being 2000 ms for a rate-limit/quota error
\* and 1000 ms for another error, and there is a wait only when a further
\* attempt on the same model follows (a < maxRetries - 1); when all calls fail
\* with errors that are neither rate-limit nor 404 errors the waits add up to
\* models.length * 1000 * (1 + ... + (maxRetries - 1)) ms.
C7_LinearBackoff ==
  variant = "stock" =>
    LET waited == SelectSeq(textCalls, LAMBDA c : C7_ExpectedWait(c) > 0)
    IN /\ Len(waits) = Len(waited)
       /\ \A i \in 1..Len(waits) :
            /\ waits[i].model = waited[i].model
            /\ waits[i].attempt = waited[i].attempt
            /\ waits[i].ms = C7_ExpectedWait(waited[i])
       /\ ( /\ pc = "exhausted"
            /\ \A i \in 1..Len(textCalls) : textCalls[i].error = ErrUnavailable )
          => sumMs(waits) =
               Len(models) * 1000 * (((maxRetries - 1) * maxRetries) \div 2)

\* two models, four attempts each, every call failed with a 503: waits of
\* 1000, 2000 and 3000 ms on each model
C7_Witness ==
  /\ variant = "stock"
  /\ pc = "exhausted"
  /\ Len(models) = 2
  /\ maxRetries = 4
  /\ \A i \in 1..Len(textCalls) : textCalls[i].error = ErrUnavailable
  /\ [i \in 1..Len(waits) |-> waits[i].ms] = <<1000, 2000, 3000, 1000, 2000, 3000>>

\* the contents of the history entries, entry 0 first
contentsOf(history) == [i \in 1..Len(history) |-> history[i].content]

reversed(list) == [i \in 1..Len(list) |-> list[Len(list) + 1 - i]]

\* C8: client editor: from an empty history, after N successful operations
\* (generate response, refine response or saveEdit) with no reject among them,
\* and loadVersion, approve, startEditing and cancelEdit calls in between,
\* contentHistory holds exactly the N contents, the latest first, and each of
\* these operations leaves currentVersion at 0.
C8_HistoryMostRecentFirst ==
  /\ [](contentsOf(contentHistory) = reversed(opLog))
  /\ [][(opLog' # opLog /\ opLog' # <<>>) =>
          /\ currentVersion' = 0
          /\ contentHistory'[1].content = opLog'[Len(opLog')]]_vars

\* three operations: a generate response, a saved edit and a refine response
\* with a different text
C8_Witness ==
  /\ Len(opLog) = 3
  /\ opLog[2] \in EditedTexts
  /\ opLog[1] \in Texts
  /\ opLog[3] \in Texts \ {opLog[1]}
  /\ Len(contentHistory) = 3
  /\ contentStatus = "draft"
  /\ currentVersion = 0
  /\ inFlight.refine = 0

\* C9: generate.js: with no image-search credential no photo search is made,
\* and a request whose text generation succeeded is answered 200 with 3
\* placeholder URLs and imageTypes ["stock", "stock", "stock"].
C9_NoCredentialPlaceholders ==
  variant = "stock" /\ ~hasUnsplashKey =>
    /\ photoCalls = <<>>
    /\ pc # "searching"
    /\ (pc = "done" /\ textSucceeded) =>
         /\ Len(responses) = 1
         /\ responses[1].status = 200
         /\ Len(responses[1].images) = 3
         /\ \A j \in 1..3 : responses[1].images[j].kind = "picsum"
         /\ responses[1].imageTypes = <<"stock", "stock", "stock">>

\* a prompt with keywords answered with no credential configured
C9_Witness ==
  /\ variant = "stock"
  /\ ~hasUnsplashKey
  /\ pc = "done"
  /\ textSucceeded
  /\ req.prompt = stringPrompt(PromptHealthcare)
  /\ has200

\* C10: whenever text generation succeeded the request is answered 200 with
\* the generated text as content, whatever the photo searches did; a 500 is
\* sent only when no call of the text provider succeeded.
C10_TextSuccessAnswered200 ==
  /\ (pc = "done" /\ textSucceeded) =>
       /\ Len(responses) = 1
       /\ responses[1].status = 200
       /\ responses[1].content = text
  /\ \A i \in 1..Len(responses) : responses[i].status = 500 => ~textSucceeded

\* answered 200 although the three photo searches gave an HTTP error, a
\* thrown error and an empty result
C10_Witness ==
  /\ variant = "stock"
  /\ pc = "done"
  /\ textSucceeded
  /\ outcomesOf(photoCalls) = <<"httpError", "throws", "empty">>
  /\ has200

\* C11: generate.js: extractKeywordsSimple returns ["professional",
\* "business", "content"] for every prompt whose tokens, after lower-casing
\* and punctuation stripping, are all stop words or at most 3 characters
\* long, whatever the contentType; and the list it returns for a prompt is
\* the same for every contentType.
C11_StopWordsOnlyFallback ==
  variant = "stock" /\ pc = "extracted" =>
    LET tokens == splitWhitespace(stripPunctuation(toLowerCase(req.prompt.chars)))
    IN /\ (\A i \in 1..Len(tokens) : tokens[i] \in stopWords \/ Len(tokens[i]) <= 3)
            => keywords = <<"professional", "business", "content">>
       /\ \A contentType \in ContentTypes :
            extractKeywordsSimple(req.prompt.chars, contentType) = keywords

\* "The e-mail and," with contentType "article": a stop word, a token that
\* is a stop word once its hyphen is stripped, a stop word with a comma
C11_Witness ==
  /\ variant = "stock"
  /\ pc = "extracted"
  /\ req.prompt.chars = <<"T","h","e"," ","e","-","m","a","i","l"," ","a","n","d",",">>
  /\ req.contentType = "article"
  /\ keywords = <<"professional", "business", "content">>

RECURSIVE stripTags(_)
\* html.replace(/<[^>]*>/g, ''): the HTML with its tags deleted
stripTags(html) ==
  IF html = <<>> THEN <<>>
  ELSE IF Head(html) = "<" /\ \E i \in 2..Len(html) : html[i] = ">"
       THEN LET i == CHOOSE k \in 2..Len(html) :
                       html[k] = ">" /\ \A j \in 2..(k - 1) : html[j] # ">"
            IN stripTags(drop(html, i))
       ELSE <<Head(html)>> \o stripTags(Tail(html))

RECURSIVE stripTagsSpaced(_)
\* html.replace(/<[^>]*>/g, ' '): the HTML with a blank in place of each tag
stripTagsSpaced(html) ==
  IF html = <<>> THEN <<>>
  ELSE IF Head(html) = "<" /\ \E i \in 2..Len(html) : html[i] = ">"
       THEN LET i == CHOOSE k \in 2..Len(html) :
                       html[k] = ">" /\ \A j \in 2..(k - 1) : html[j] # ">"
            IN <<" ">> \o stripTagsSpaced(drop(html, i))
       ELSE <<Head(html)>> \o stripTagsSpaced(Tail(html))

\* the characters of the bold, heading and bullet markers
MarkerChars == {"*", "#", "-", "@"}

\* the words of a text, and its words once the marker characters are left out
wordsOf(s) == SelectSeq(splitWhitespace(s), LAMBDA w : w # "")

wordsUnmarked(s) == wordsOf(SelectSeq(s, LAMBDA c : c \notin MarkerChars))

\* the characters of a text that are neither whitespace nor marker characters
plainChars(s) == SelectSeq(s, LAMBDA c : c \notin WhitespaceChars \cup MarkerChars)

\* C12 as stated, for the drafts that hold no raw HTML: the HTML
\* formattedContent makes of the draft, with its tags stripped, has the same
\* sequence of words as the draft.  The tags may be deleted or replaced by a
\* blank, and the words may be compared with or without the marker
\* characters: the round trip holds under one of these readings at least.
C12_RoundTripWords ==
  (rendered # <<>> /\ "<" \notin Range(generatedContent)) =>
    LET html == rendered[1]
        raw  == generatedContent
    IN \/ wordsOf(stripTags(html)) = wordsOf(raw)
       \/ wordsUnmarked(stripTags(html)) = wordsUnmarked(raw)
       \/ wordsOf(stripTagsSpaced(html)) = wordsOf(raw)
       \/ wordsUnmarked(stripTagsSpaced(html)) = wordsUnmarked(raw)

\* C12 amended: for every draft that contains no "<", the HTML
\* formattedContent makes of it, with its tags deleted, has the same
\* characters in the same order as the draft, whitespace and the marker
\* characters * # - and the bullet aside.
C12_RoundTripChars ==
  (rendered # <<>> /\ "<" \notin Range(generatedContent)) =>
    plainChars(stripTags(rendered[1])) = plainChars(generatedContent)

\* "## Tips", a paragraph break, "**Go**": a heading and a paragraph with a
\* word in bold
C12_Witness ==
  /\ generatedContent = <<"#","#"," ","T","i","p","s","\n","\n","*","*","G","o","*","*">>
  /\ rendered = << H3Open \o <<"T","i","p","s">> \o H3Close \o POpen \o StrongOpen
                     \o <<"G","o">> \o StrongClose \o PClose >>

\* C13: every request is answered exactly once, with status 200, 400 or
\* 500, whatever the text provider and the photo provider return: at no time
\* has a request two responses, a request whose handler has returned has one,
\* and a request that has arrived is eventually answered.
C13_ExactlyOneResponse ==
  /\ [](/\ Len(responses) <= 1
        /\ \A i \in 1..Len(responses) : responses[i].status \in {200, 400, 500}
        /\ pc = "done" => Len(responses) = 1
        /\ pc \notin {"idle", "done"} => responses = <<>>)
  /\ (pc \notin {"idle", "done"}) ~> (pc = "done" /\ Len(responses) = 1)

\* a request answered 500 after every call of the text provider failed
C13_Witness ==
  /\ pc = "done"
  /\ Len(responses) = 1
  /\ responses[1].status = 500
  /\ textCalls # <<>>
  /\ ~textSucceeded


\* the tag that names the origin of an image url
originTag(url) ==
  CASE url.kind = "unsplash" -> "unsplash"
    [] url.kind = "picsum"   -> "stock"
    [] url.kind = "data"     -> "ai-generated"
    [] OTHER                 -> "none"

\* C14: in both route files, for every index i of a 200 response,
\* imageTypes[i] names the origin of images[i]: "unsplash" for a url the photo
\* search returned, "stock" for a placeholder url, "ai-generated" for a data
\* URI of an AI-image call.
C14_TypesNameOrigin ==
  \A i \in 1..Len(responses) :
    responses[i].status = 200 =>
      \A j \in 1..Len(responses[i].images) :
        /\ j \in DOMAIN responses[i].imageTypes
        /\ responses[i].imageTypes[j] = originTag(responses[i].images[j])

\* C14 restricted to backend/routes/generate.js
C14_TypesNameOriginStock == variant = "stock" => C14_TypesNameOrigin

\* the position of a model in the model list
modelRank(model) == CHOOSE k \in 1..Len(models) : models[k] = model

\* C15: generateWithRetry calls the models in the order of the list, starting
\* with the first and never returning to a model once a later one has been
\* called; after the first successful call it makes no other call, and the
\* value it returns is the text of that call.
C15_PriorityOrderStopAtSuccess ==
  /\ [](/\ textCalls # <<>> => modelRank(textCalls[1].model) = 1
        /\ \A i \in 1..(Len(textCalls) - 1) :
             /\ modelRank(textCalls[i + 1].model) >= modelRank(textCalls[i].model)
             /\ modelRank(textCalls[i + 1].model) <= modelRank(textCalls[i].model) + 1
             /\ ~textCalls[i].ok
        /\ textSucceeded <=> pc = "generated")
  /\ [][/\ textSucceeded => textCalls' = textCalls /\ text' = text
        /\ (~textSucceeded /\ textSucceeded') => text' \in Texts /\ pc' = "generated"]_vars

\* the first model failed on every attempt, the second failed once and then
\* returned a text
C15_Witness ==
  /\ Len(models) = 2
  /\ maxRetries = 2
  /\ pc = "generated"
  /\ [i \in 1..Len(textCalls) |-> <<modelRank(textCalls[i].model), textCalls[i].ok>>]
       = << <<1, FALSE>>, <<1, FALSE>>, <<2, FALSE>>, <<2, TRUE>> >>
  /\ text \in Texts

\* the urls of the photo searches of a log that gave a result, in call order
foundUrls(calls) ==
  LET found == SelectSeq(calls, LAMBDA c : c.outcome = "found")
  IN [i \in 1..Len(found) |-> unsplashUrl(found[i].keyword)]

\* C16: in both route files, a photo search that fails for one keyword (a
\* non-OK status or a thrown error) neither stops the searches for the later
\* keywords nor discards the results of the earlier ones: every keyword is
\* searched, and the photo-search urls of the response are those of the
\* keywords whose search gave a result, in keyword order.
C16_KeywordFailureSkipped ==
  (pc = "done" /\ has200 /\ hasUnsplashKey) =>
    /\ [i \in 1..Len(photoCalls) |-> photoCalls[i].keyword] = keywords
    /\ SelectSeq(responses[1].images, LAMBDA u : u.kind = "unsplash")
         = foundUrls(photoCalls)

\* C16 restricted to backend/routes/generate.js
C16_KeywordFailureSkippedStock == variant = "stock" => C16_KeywordFailureSkipped

\* C17: Imagen-first variant: once an AI-image call has failed with a
\* rate-limit error at time t, no AI-image call, Imagen or Gemini-flash, of
\* the same or of another request, is started at a time before t + 60000,
\* however the requests interleave: every check made in that window returns
\* "skip", and a request all of whose checks were skipped has no AI image.
C17_NoCallDuringCooldown ==
  /\ \A i, j \in 1..Len(aiEvents) :
       (/\ i < j
        /\ aiEvents[i].kind = "rateLimited"
        /\ aiEvents[j].at < aiEvents[i].at + CooldownMs)
       => aiEvents[j].kind # "started"
  /\ \A r \in 1..MaxRequests :
       (\A k \in 1..Len(aiEvents) :
          aiEvents[k].request = r => aiEvents[k].kind = "skipped")
       => aiStep[r] # "aiImage"

\* the Imagen call of request 1 is rate limited at time 0; its Gemini-flash
\* call and, one tick later, both calls of request 2 are skipped
C17_Witness ==
  /\ aiEvents =
       << [request |-> 1, model |-> ImagenModel, kind |-> "started", at |-> 0],
          [request |-> 1, model |-> ImagenModel, kind |-> "rateLimited", at |-> 0],
          [request |-> 1, model |-> FlashModel, kind |-> "skipped", at |-> 0],
          [request |-> 2, model |-> ImagenModel, kind |-> "skipped", at |-> CooldownTickMs],
          [request |-> 2, model |-> FlashModel, kind |-> "skipped", at |-> CooldownTickMs] >>
  /\ aiStep[1] = "stockOnly"
  /\ aiStep[2] = "stockOnly"

\* the step appends an event of one of kinds to the history
appends(kinds) ==
  /\ Len(aiEvents') = Len(aiEvents) + 1
  /\ aiEvents'[Len(aiEvents')].kind \in kinds

\* the times of the rate-limit failures so far
rateLimitTimes == { aiEvents[k].at : k \in { n \in 1..Len(aiEvents) :
                                               aiEvents[n].kind = "rateLimited" } }

\* C18: Imagen-first variant: the suppression is lifted exactly when the
\* cooldown expires. While the flag is set the reset time is 60000 ms after
\* the most recent rate-limit failure; the first check made at or after that
\* time returns "do not skip" and clears the flag; the flag is cleared by no
\* other step and at no earlier time; an AI-image call that ends without a
\* rate-limit error leaves the flag and the reset time as they were.
C18_LiftedAtExpiry ==
  /\ [](isRateLimited =>
          /\ rateLimitTimes # {}
          /\ \A t \in rateLimitTimes : t + CooldownMs <= rateLimitResetTime
          /\ rateLimitResetTime - CooldownMs \in rateLimitTimes)
  /\ [][/\ (appends({"started", "skipped"}) /\ isRateLimited /\ now >= rateLimitResetTime)
             => appends({"started"}) /\ ~isRateLimited'
        /\ (appends({"started", "skipped"}) /\ isRateLimited /\ now < rateLimitResetTime)
             => appends({"skipped"}) /\ isRateLimited'
        /\ (isRateLimited /\ ~isRateLimited')
             => appends({"started"}) /\ now >= rateLimitResetTime
        /\ appends({"image", "noImage", "failed"})
             => UNCHANGED <<isRateLimited, rateLimitResetTime>>
        /\ appends({"rateLimited"})
             => isRateLimited' /\ rateLimitResetTime' = now + CooldownMs]_vars

\* a rate-limit failure at time 0, a check skipped one tick later, and the
\* first check at the reset time starting a call with the flag cleared;
\* meanwhile a call failed otherwise
C18_Witness ==
  /\ ~isRateLimited
  /\ rateLimitResetTime = CooldownMs
  /\ now = rateLimitResetTime
  /\ \E i, j, k \in 1..Len(aiEvents) :
       /\ i < j /\ j < k
       /\ aiEvents[i].kind = "rateLimited" /\ aiEvents[i].at = 0
       /\ aiEvents[j].kind = "skipped" /\ aiEvents[j].at < rateLimitResetTime
       /\ aiEvents[j].at > 0
       /\ aiEvents[k].kind = "started" /\ aiEvents[k].at = rateLimitResetTime
       /\ \A n \in (j + 1)..(k - 1) : aiEvents[n].kind \notin {"started", "skipped"}
  /\ \E n \in 1..Len(aiEvents) : aiEvents[n].kind = "failed"

\* C19: client: contentHistory is append-only between resets: a step of any
\* operation other than rejectContent leaves the existing entries and their
\* order as they were, and puts a new entry, if any, at position 0 only.
C19_HistoryAppendOnly ==
  [][\/ RejectContent
     \/ contentHistory' = contentHistory
     \/ /\ Len(contentHistory') = Len(contentHistory) + 1
        /\ SubSeq(contentHistory', 2, Len(contentHistory')) = contentHistory]_vars

\* two versions with different contents, the older one loaded and approved,
\* after a refine request that failed
C19_Witness ==
  /\ Len(contentHistory) >= 2
  /\ contentHistory[1].content # contentHistory[2].content
  /\ currentVersion = 1
  /\ contentStatus = "approved"
  /\ error = ErrRefine

\* C20: client: immediately after rejectContent, whatever the state it is
\* called in, generatedContent is empty, contentHistory has no entries and
\* contentStatus is "rejected".
C20_RejectClears ==
  [][RejectContent =>
       /\ generatedContent' = <<>>
       /\ contentHistory' = <<>>
       /\ contentStatus' = "rejected"]_vars

\* rejected while an older version was loaded, the draft was being edited and
\* a generate request was pending
C20_Witness ==
  /\ contentStatus = "rejected"
  /\ generatedContent = <<>>
  /\ contentHistory = <<>>
  /\ currentVersion = 1
  /\ isEditing
  /\ inFlight.generate > 0

\* C21: client: saveEdit, whatever the status it is called in, makes the
\* draft the text of the edit buffer, puts exactly one new history entry with
\* that text at position 0, sets currentVersion to 0, leaves edit mode and
\* sets contentStatus to "draft".
C21_SaveEditNewVersion ==
  [][SaveEdit =>
       /\ generatedContent' = editableContent'
       /\ Len(contentHistory') = Len(contentHistory) + 1
       /\ contentHistory'[1].content = editableContent'
       /\ Tail(contentHistory') = contentHistory
       /\ currentVersion' = 0
       /\ ~isEditing'
       /\ contentStatus' = "draft"]_vars

\* an edited text saved on top of two earlier versions
C21_Witness ==
  /\ Len(contentHistory) = 3
  /\ generatedContent \in EditedTexts
  /\ contentHistory[1].content = generatedContent
  /\ contentHistory[2].content \notin EditedTexts
  /\ currentVersion = 0
  /\ ~isEditing
  /\ contentStatus = "draft"

\* C22: client: at most one generation request, generate or refine, is in
\* flight at any time: while isLoading or isRefining is true, a call of
\* generate() or refineContent() sends no request.
C22_SingleRequestInFlight ==
  /\ pending <= 1
  /\ pending = 1 => (isLoading \/ isRefining)

\* the indices of the images embedded in the document, in the order drawn
imagesEmbedded ==
  LET images == SelectSeq(drawn, LAMBDA d : d.kind = "image")
  IN [i \in 1..Len(images) |-> images[i].src]

\* the indices of the nodes whose text is in the document, in the order drawn
nodesRendered ==
  LET texts == SelectSeq(drawn, LAMBDA d : d.kind = "text")
  IN [i \in 1..Len(texts) |-> texts[i].src]

\* the node has a text to draw
hasText(node) ==
  CASE node.tag \in {"H2", "H3"} -> TRUE
    [] node.tag = "UL" -> \E i \in 1..Len(node.items) : node.items[i] > 0
    [] OTHER -> node.lines > 0

\* C23: PDF export: whichever images fail to load or to encode, downloadAsPDF
\* does not abort: it renders the text of the draft and saves the document,
\* and the document embeds exactly the images that loaded, in their order.
C23_FailedImagesSkipped ==
  /\ pdfPc # "failed"
  /\ pdfPc = "saved" =>
       /\ \A i \in 1..Len(contentImages) :
            (contentImages[i] = "loaded") <=>
              (\E k \in 1..Len(imagesEmbedded) : imagesEmbedded[k] = i)
       /\ \A k \in 1..(Len(imagesEmbedded) - 1) : imagesEmbedded[k] < imagesEmbedded[k + 1]
       /\ \A j \in 1..Len(nodes) :
            hasText(nodes[j]) <=> (\E k \in 1..Len(nodesRendered) : nodesRendered[k] = j)
       /\ \A k \in 1..(Len(nodesRendered) - 1) : nodesRendered[k] <= nodesRendered[k + 1]

\* a document saved with the one image that loaded, between one that failed
\* to load and one that failed to encode, and with its text
C23_Witness ==
  /\ pdfPc = "saved"
  /\ contentImages = <<"loadError", "loaded", "encodeError">>
  /\ imagesEmbedded = <<2>>
  /\ Len(nodes) > 0
  /\ Len(nodesRendered) > 0

\* the lowest point of a drawing in hundredths of a mm: the bottom edge of an
\* image, the baseline of the last line of a text
lowest(d) ==
  IF d.kind = "image" THEN 100 * (d.y + d.height)
  ELSE 100 * d.y + (d.lines - 1) * lineAdvance(ContentFontSize)

\* C27: PDF export: every line of text and every image of the document lies
\* at a vertical position of at most pageHeight - margin on its page.
C27_DrawnAboveBottomMargin ==
  \A k \in 1..Len(drawn) :
    (drawn[k].kind \in {"image", "text"} /\ (drawn[k].kind = "text" => drawn[k].lines > 0))
      => lowest(drawn[k]) <= 100 * (PageHeight - Margin)

\* C27 for the first baseline of each text only
C27_FirstLinesAboveBottomMargin ==
  \A k \in 1..Len(drawn) :
    drawn[k].kind \in {"image", "text"} => drawn[k].y <= PageHeight - Margin

\* the number of maximal runs of non-whitespace characters of s
tokenCount(s) ==
  Cardinality({ i \in 1..Len(s) :
                  /\ s[i] \notin WhitespaceChars
                  /\ (i = 1 \/ s[i - 1] \in WhitespaceChars) })

\* C24: every 200 response has as wordCount the number of non-empty
\* whitespace-delimited tokens of its content, the empty content and content
\* with leading or trailing whitespace included.
C24_WordCountIsTokenCount ==
  \A i \in 1..Len(responses) :
    responses[i].status = 200 => responses[i].wordCount = tokenCount(responses[i].content)

\* C24 for content that is not empty and neither starts nor ends with whitespace
C24_WordCountOfTrimmedContent ==
  \A i \in 1..Len(responses) :
    LET content == responses[i].content
    IN (/\ responses[i].status = 200
        /\ content # <<>>
        /\ content[1] \notin WhitespaceChars
        /\ content[Len(content)] \notin WhitespaceChars)
         => responses[i].wordCount = tokenCount(content)

\* the response carries the quota-exceeded hint
hasQuotaHint(resp) == includes(resp.error, "quota")

\* the errors of the failed calls of the text model
textErrors == { textCalls[i].error : i \in { k \in 1..Len(textCalls) : ~textCalls[k].ok } }

\* C25: the 500 response of generate.js carries the quota-exceeded hint when
\* the text generation failed because of rate-limit or quota errors, and
\* carries no such hint when it failed for other reasons (404, transient).
C25_QuotaHintOnlyForQuotaErrors ==
  \A i \in 1..Len(responses) :
    (variant = "stock" /\ responses[i].status = 500) =>
      /\ (\A err \in textErrors : isRateLimitError(err)) => hasQuotaHint(responses[i])
      /\ (\A err \in textErrors : ~isRateLimitError(err)) => ~hasQuotaHint(responses[i])

\* C25, the first half: the hint is there after rate-limit or quota errors
C25_QuotaHintAfterQuotaErrors ==
  \A i \in 1..Len(responses) :
    (variant = "stock" /\ responses[i].status = 500) =>
      ((\A err \in textErrors : isRateLimitError(err)) => hasQuotaHint(responses[i]))

\* the tokens of the prompt that are longer than 3 characters and no stop words
keywordCandidates ==
  LET tokens == splitWhitespace(stripPunctuation(toLowerCase(req.prompt.chars)))
  IN { tokens[i] : i \in { k \in 1..Len(tokens) :
                             Len(tokens[k]) > 3 /\ tokens[k] \notin stopWords } }

\* C26: for a prompt with at least one keyword, extractKeywordsSimple returns
\* 1 to 3 strings, pairwise distinct, each a token of the prompt longer than 3
\* characters and no stop word, in non-increasing order of length, and no
\* such token left out is longer than a returned one.
C26_LongestDistinctKeywords ==
  (variant = "stock" /\ pc = "extracted" /\ keywordCandidates # {}) =>
    /\ Len(keywords) \in 1..3
    /\ \A i, j \in 1..Len(keywords) : i # j => keywords[i] # keywords[j]
    /\ \A i \in 1..Len(keywords) : keywords[i] \in keywordCandidates
    /\ \A i \in 1..(Len(keywords) - 1) : Len(keywords[i]) >= Len(keywords[i + 1])
    /\ \A t \in keywordCandidates \ Range(keywords) :
         \A i \in 1..Len(keywords) : Len(t) <= Len(keywords[i])

\* four keywords in the prompt, the shortest of them, the first in the
\* prompt, left out
C26_Witness ==
  /\ variant = "stock"
  /\ pc = "extracted"
  /\ Cardinality(keywordCandidates) = 4
  /\ req.prompt.chars[1] = "g"
  /\ keywords = <<"energy", "solar", "power">>

\* C28: client: whenever contentHistory is not empty, currentVersion is an
\* index of it: 0 <= currentVersion < contentHistory.length.
C28_CurrentVersionInRange ==
  Len(contentHistory) > 0 =>
    /\ 0 <= currentVersion
    /\ currentVersion < Len(contentHistory)

\* the oldest of three versions loaded
C28_Witness ==
  /\ Len(contentHistory) = 3
  /\ currentVersion = 2
  /\ generatedContent = contentHistory[3].content

\* C29: client: whenever no generate or refine request is in flight and
\* contentHistory is not empty, the draft generatedContent is the content of
\* contentHistory[currentVersion], also after a request that failed.
C29_DraftIsCurrentVersion ==
  (pending = 0 /\ Len(contentHistory) > 0 /\ currentVersion < Len(contentHistory)) =>
    generatedContent = contentHistory[currentVersion + 1].content

\* C29 with the empty draft allowed
C29_DraftIsCurrentVersionOrEmpty ==
  (pending = 0 /\ Len(contentHistory) > 0 /\ currentVersion < Len(contentHistory)) =>
    generatedContent \in {<<>>, contentHistory[currentVersion + 1].content}

\* C30: client: whenever contentStatus is "approved", the draft
\* generatedContent is not empty, a generate request being in flight or not.
C30_ApprovedDraftNotEmpty ==
  contentStatus = "approved" => generatedContent # <<>>

\* C30 for a component that has a version in its history
C30_ApprovedDraftNotEmptyWithHistory ==
  (contentStatus = "approved" /\ Len(contentHistory) > 0) => generatedContent # <<>>
=============================================================================
